---------------------------- MODULE Spec2Model ----------------------------
(***************************************************************************)
(* Deployment resolvers of the Lagoon API                                  *)
(* (services/api/src/resources/deployment/resolvers.js).                   *)
(*                                                                         *)
(* Every resolver is an async function.  A call is a process whose steps   *)
(* are the statements it awaits (one store statement, one log-index search *)
(* or one task-backend call per step) together with the synchronous code   *)
(* that follows the await.  Calls of different callers interleave at these *)
(* steps.                                                                  *)
(***************************************************************************)
EXTENDS Integers, Sequences, FiniteSets, TLC

(***************************************************************************)
(* Bounds of the model.                                                    *)
(***************************************************************************)
\* number of resolver calls started in one behaviour
MaxCalls == 2
\* largest deployment id the store hands out or accepts
MaxId == 3
\* times the status normalizer is applied in a row
MaxApply == 2

(***************************************************************************)
(* JavaScript undefined / SQL NULL, one sentinel per value type.           *)
(***************************************************************************)
\* undefined or NULL for string-valued fields
UNDEF == "<undefined>"
\* `id` left out of the input: the store assigns one
NoId == 0
\* created / started / completed not set
NoTime == 0

(***************************************************************************)
(* Status tokens are sequences of characters, so that R.toLower is         *)
(* computed character by character.                                        *)
(***************************************************************************)
\* the status local when the input carries no status (R.cond falls to R.T)
UndefStatus == <<"<undefined>">>

UpperLetters == <<"A","B","C","D","E","F","G","H","I","J","K","L","M",
                  "N","O","P","Q","R","S","T","U","V","W","X","Y","Z">>
LowerLetters == <<"a","b","c","d","e","f","g","h","i","j","k","l","m",
                  "n","o","p","q","r","s","t","u","v","w","x","y","z">>

LowerChar(ch) ==
    IF \E i \in 1..26 : UpperLetters[i] = ch
    THEN LowerLetters[CHOOSE i \in 1..26 : UpperLetters[i] = ch]
    ELSE ch

UpperChar(ch) ==
    IF \E i \in 1..26 : LowerLetters[i] = ch
    THEN UpperLetters[CHOOSE i \in 1..26 : LowerLetters[i] = ch]
    ELSE ch

\* R.toLower
toLower(s) == [i \in 1..Len(s) |-> LowerChar(s[i])]

S_NEW       == <<"N","E","W">>
S_PENDING   == <<"P","E","N","D","I","N","G">>
S_RUNNING   == <<"R","U","N","N","I","N","G">>
S_CANCELLED == <<"C","A","N","C","E","L","L","E","D">>
S_ERROR     == <<"E","R","R","O","R">>
S_FAILED    == <<"F","A","I","L","E","D">>
S_COMPLETE  == <<"C","O","M","P","L","E","T","E">>

\* a plausible slip: the branches lower-case whatever spelling they are given
\* and the fall-through upper-cases
StatusSwapCase(t) ==
    IF t = UndefStatus THEN t
    ELSE IF t = toLower(t) THEN [i \in 1..Len(t) |-> UpperChar(t[i])]
    ELSE toLower(t)

\* a plausible slip: the fall-through branch lower-cases too
StatusLowerAll(t) ==
    IF t = UndefStatus THEN t ELSE toLower(t)

\* R.cond([[R.equals('NEW'), R.toLower], ..., [R.T, R.identity]])
deploymentStatusTypeToString(t) ==
    CASE t = S_NEW       -> toLower(t)
      [] t = S_PENDING   -> toLower(t)
      [] t = S_RUNNING   -> toLower(t)
      [] t = S_CANCELLED -> toLower(t)
      [] t = S_ERROR     -> toLower(t)
      [] t = S_FAILED    -> toLower(t)
      [] t = S_COMPLETE  -> toLower(t)
      [] OTHER           -> t


(***************************************************************************)
(* The relational store's tables that the resolvers only read.             *)
(***************************************************************************)
\* project: id, name, owning customer
Projects ==
    { [id |-> "p1", name |-> "site1", customer |-> "c1"],
      [id |-> "p2", name |-> "site2", customer |-> "c2"] }

\* environment.deleted of an environment that is not deleted
NotDeleted == "0000-00-00 00:00:00"

Env(id, name, project, deployType, baseRef, headRef, title, deleted) ==
    [id |-> id, name |-> name, project |-> project, deployType |-> deployType,
     deployBaseRef |-> baseRef, deployHeadRef |-> headRef,
     deployTitle |-> title, deleted |-> deleted]

\* names and refs are sequences of characters: the resolvers cut and join them
N_main    == <<"m","a","i","n">>
N_develop == <<"d","e","v","e","l","o","p">>
N_feature == <<"f","e","a","t","u","r","e">>
N_pr7     == <<"p","r","-","7">>
N_pr8     == <<"p","r","-","8">>
N_pr9     == <<"p","r","-","9">>
N_prod    == <<"p","r","o","d">>
N_stage   == <<"s","t","a","g","e">>
N_old     == <<"o","l","d">>
N_dup     == <<"d","u","p">>
N_cron    == <<"c","r","o","n">>
N_hot     == <<"h","o","t">>
N_none    == <<"n","o","n","e">>
N_Fix     == <<"F","i","x">>
N_origin  == <<"o","r","i","g","i","n","/">>
N_prDash  == <<"p","r","-">>

Environments ==
    { Env("e1", N_main,  "p1", "branch",      N_main,    <<>>,      <<>>,  NotDeleted),
      Env("e2", N_pr7,   "p2", "pullrequest", N_develop, N_feature, N_Fix, NotDeleted),
      Env("e3", N_prod,  "p1", "promote",     N_main,    <<>>,      <<>>,  NotDeleted),
      Env("e4", N_stage, "p2", "promote",     <<>>,      <<>>,      <<>>,  NotDeleted),
      Env("e5", N_old,   "p1", "branch",      N_old,     <<>>,      <<>>,  "2018-01-01 00:00:00"),
      Env("e6", N_dup,   "p2", "branch",      N_dup,     <<>>,      <<>>,  NotDeleted),
      Env("e7", N_dup,   "p2", "branch",      N_dup,     <<>>,      <<>>,  NotDeleted),
      Env("e8", N_pr8,   "p1", "pullrequest", <<>>,      <<>>,      <<>>,  NotDeleted),
      Env("e9", N_cron,  "p2", "cronjob",     N_main,    <<>>,      <<>>,  NotDeleted),
      Env("e10", N_hot,  "p1", "branch",      <<>>,      <<>>,      <<>>,  NotDeleted),
      Env("e11", N_pr9,  "p1", "pullrequest", <<>>,      <<>>,      N_Fix, NotDeleted) }

\* environment inputs of the trigger resolvers: by id, or by name and project
EnvInput(id, name, project) == [id |-> id, name |-> name, project |-> project]

EnvironmentInputs ==
    { EnvInput(e.id, <<>>, UNDEF) : e \in Environments }
    \cup { EnvInput(UNDEF, N_dup, "p2"), EnvInput(UNDEF, N_none, "p1") }

NoEnvInput == EnvInput(UNDEF, <<>>, UNDEF)

\* project inputs of the trigger resolvers
ProjectInputs == {"p1", "p2", "p9"}

(***************************************************************************)
(* Credentials of a caller: role and the two scope sets.                   *)
(***************************************************************************)
Cred(role, customers, projects) ==
    [role |-> role, customers |-> customers, projects |-> projects]

NoCred == Cred(UNDEF, {}, {})

\* callers of the resolvers that write, and of the triggers
Creds ==
    { Cred("admin", {}, {}),
      Cred("user",  {}, {"p1"}),
      Cred("user",  {"c2"}, {}),
      Cred("user",  {"c2"}, {"p1"}) }

\* callers of the list resolver: the same, and one with both scope sets empty
ListCreds == Creds \cup { Cred("user", {}, {}), Cred("user", {"c1"}, {"p2"}) }

(***************************************************************************)
(* Deployment rows and resolver inputs.  An input or a patch is a record   *)
(* of the same fields in which a field left out is undefined.              *)
(***************************************************************************)
Dep(id, name, status, created, started, completed, environment, remoteId) ==
    [id |-> id, name |-> name, status |-> status, created |-> created,
     started |-> started, completed |-> completed,
     environment |-> environment, remoteId |-> remoteId]

NoArg == Dep(NoId, UNDEF, UndefStatus, NoTime, NoTime, NoTime, UNDEF, UNDEF)

DepIds == 1..MaxId

\* the deployment table before the first call
InitialDeployments ==
    { Dep(1, "build-1", <<"n","e","w">>, 1, NoTime, NoTime, "e1", "r1"),
      Dep(2, "build-2", <<"r","u","n","n","i","n","g">>, 2, 2, NoTime, "e1", UNDEF) }

\* ids asked of updateDeployment and deleteDeployment: a stored one and one
\* that is not stored before the first call
TargetIds == {1, 3}

\* inputs of addDeployment
AddInputs ==
    { Dep(NoId, "build-3", S_NEW, 3, NoTime, NoTime, "e1", UNDEF),
      Dep(NoId, "build-1", <<"R","u","n","n","i","n","g">>, 3, 3, NoTime, "e2", "r1"),
      Dep(3, "build-2", S_COMPLETE, 1, 1, 2, "e2", "r2") }

\* patches of updateDeployment
Patches ==
    { NoArg,
      [NoArg EXCEPT !.status = S_RUNNING],
      [NoArg EXCEPT !.environment = "e2"],
      [NoArg EXCEPT !.environment = "e1", !.status = S_FAILED],
      [NoArg EXCEPT !.completed = 3, !.remoteId = "r1"] }

\* remote ids asked of getDeploymentByRemoteId
RemoteIds == {"r1", "r9"}

\* name filters of getDeploymentsByEnvironmentId
NameFilters == {UNDEF, "", "build-1"}

(***************************************************************************)
(* The log index (read only): entries of lagoon-logs-*.                    *)
(***************************************************************************)
LogIndex ==
    { [remoteId |-> "r1", buildPhase |-> <<"n","e","w">>, timestamp |-> 1, message |-> "queued"],
      [remoteId |-> "r1", buildPhase |-> <<"r","u","n","n","i","n","g">>, timestamp |-> 2, message |-> "step 1"],
      [remoteId |-> "r1", buildPhase |-> <<"r","u","n","n","i","n","g">>, timestamp |-> 3, message |-> "step 2"],
      [remoteId |-> "r2", buildPhase |-> <<"f","a","i","l","e","d">>, timestamp |-> 4, message |-> "boom"] }


(***************************************************************************)
(* Task payloads (deployData) and the task backend.                        *)
(***************************************************************************)
\* undefined for name and ref fields
NoRef == <<"<undefined>">>

NoData ==
    [type |-> UNDEF, projectName |-> UNDEF, branchName |-> NoRef, sha |-> NoRef,
     pullrequestTitle |-> NoRef, pullrequestNumber |-> NoRef,
     headBranchName |-> NoRef, headSha |-> NoRef,
     baseBranchName |-> NoRef, baseSha |-> NoRef,
     promoteSourceEnvironment |-> NoRef]

NoTask == [fn |-> UNDEF, data |-> NoData]

\* what the task backend answers to createDeployTask / createPromoteTask
TaskOutcomes ==
    { [name |-> "ok", message |-> ""],
      [name |-> "NoNeedToDeployBranch", message |-> "up to date"],
      [name |-> "UnknownActiveSystem", message |-> "no active system"] }

(***************************************************************************)
(* State.                                                                  *)
(***************************************************************************)
VARIABLES
    deployment,   \* the deployment table: a set of rows, at most one per id
    nextId,       \* the table's AUTO_INCREMENT counter
    events,       \* the calls of pubSub.publish, in order
    calls,        \* per caller slot: the resolver call in flight, its locals and effects
    nCalls,       \* calls started so far
    token,        \* status normalizer on its own: the token given
    normalized    \* status normalizer on its own: the results, in order

vars == <<deployment, nextId, events, calls, nCalls, token, normalized>>

Slots == {1, 2}

NoResult == [kind |-> "none", msg |-> UNDEF, value |-> <<>>]

\* a slot with no call in flight
Idle ==
    [op |-> "idle", pc |-> "idle", no |-> 0, cred |-> NoCred, id |-> NoId, arg |-> NoArg,
     status |-> UndefStatus, rows |-> {}, wantLog |-> FALSE,
     sel |-> NoEnvInput, proj |-> UNDEF, envs |-> {}, task |-> NoTask,
     result |-> NoResult,
     \* effects of the call so far
     issued |-> 0,      \* INSERT / UPDATE / DELETE statements sent to the store
     changed |-> 0,     \* rows those statements inserted, changed or removed
     pub |-> <<>>,      \* topics published
     searches |-> 0,    \* log-index searches
     tasks |-> <<>>,    \* task-backend operations invoked
     logs |-> <<>>]     \* log lines sent (severity)

\* throw new Error(msg), or any rejection of the resolver's promise
Reject(c, msg) ==
    [c EXCEPT !.pc = "done",
              !.result = [kind |-> "reject", msg |-> msg, value |-> <<>>]]

\* return value
Return(c, msg, value) ==
    [c EXCEPT !.pc = "done",
              !.result = [kind |-> "return", msg |-> msg, value |-> value]]

(***************************************************************************)
(* Store statements (resources/deployment/sql.js, resources/project/sql.js *)
(* and util/db.js are not part of the sources at hand; they are modelled   *)
(* from the data model: a deployment is owned by its environment, an       *)
(* environment by its project, a project by its customer).                 *)
(***************************************************************************)
\* the one element of a result set of at most one row
Row0(rows) == CHOOSE r \in rows : TRUE

\* Sql.selectPermsForProject(pid): pid and cid of the project
selectPermsForProject(pid) ==
    { [pid |-> p.id, cid |-> p.customer] : p \in {q \in Projects : q.id = pid} }

\* Sql.selectPermsForEnvironment(eid): pid and cid of the environment's project
selectPermsForEnvironment(eid) ==
    UNION { selectPermsForProject(e.project) : e \in {f \in Environments : f.id = eid} }

\* Sql.selectPermsForDeployment(id): pid and cid of the deployment's environment's project
selectPermsForDeployment(table, id) ==
    UNION { selectPermsForEnvironment(d.environment) : d \in {r \in table : r.id = id} }

\* Sql.selectDeployment(id)
selectDeployment(table, id) == {r \in table : r.id = id}

\* Sql.updateDeployment({id, patch}): columns whose patch value is undefined are left alone
PatchRow(r, patch) ==
    Dep(r.id,
        IF patch.name = UNDEF THEN r.name ELSE patch.name,
        IF patch.status = UndefStatus THEN r.status ELSE patch.status,
        IF patch.created = NoTime THEN r.created ELSE patch.created,
        IF patch.started = NoTime THEN r.started ELSE patch.started,
        IF patch.completed = NoTime THEN r.completed ELSE patch.completed,
        IF patch.environment = UNDEF THEN r.environment ELSE patch.environment,
        IF patch.remoteId = UNDEF THEN r.remoteId ELSE patch.remoteId)

sqlUpdateDeployment(table, id, patch) ==
    { IF r.id = id THEN PatchRow(r, patch) ELSE r : r \in table }

\* Sql.deleteDeployment(id)
sqlDeleteDeployment(table, id) == {r \in table : r.id # id}

\* isPatchEmpty({patch}): the patch object has no attribute
isPatchEmpty(patch) ==
    /\ patch.name = UNDEF
    /\ patch.status = UndefStatus
    /\ patch.created = NoTime
    /\ patch.started = NoTime
    /\ patch.completed = NoTime
    /\ patch.environment = UNDEF
    /\ patch.remoteId = UNDEF

(***************************************************************************)
(* The permission test every resolver repeats.                             *)
(***************************************************************************)
\* R.path(['0', 'pid'], rows) and R.path(['0', 'cid'], rows)
Pid0(rows) == IF rows = {} THEN UNDEF ELSE Row0(rows).pid
Cid0(rows) == IF rows = {} THEN UNDEF ELSE Row0(rows).cid

\* a plausible slip: || for && (either scope set missing the owner denies)
UnauthorizedEither(rows, cred) ==
    \/ ~(Pid0(rows) \in cred.projects)
    \/ ~(Cid0(rows) \in cred.customers)

\* !R.contains(pid, projects) && !R.contains(cid, customers)
Unauthorized(rows, cred) ==
    /\ ~(Pid0(rows) \in cred.projects)
    /\ ~(Cid0(rows) \in cred.customers)

(***************************************************************************)
(* injectBuildLog                                                          *)
(***************************************************************************)
WithLog(d, log) ==
    [id |-> d.id, name |-> d.name, status |-> d.status, created |-> d.created,
     started |-> d.started, completed |-> d.completed,
     environment |-> d.environment, remoteId |-> d.remoteId, buildLog |-> log]

\* a plausible slip: the early return for a deployment without remoteId left out
RemoteIdUnchecked(d) == FALSE

\* !deployment.remoteId
NoRemoteId(d) == d.remoteId = UNDEF \/ d.remoteId = ""

\* esClient.search: entries matching remoteId and buildPhase
Hits(d) ==
    {h \in LogIndex : h.remoteId = d.remoteId /\ h.buildPhase = d.status}

\* hits.hits[0] under sort '@timestamp:desc'
Newest(hits) == CHOOSE h \in hits : \A g \in hits : g.timestamp <= h.timestamp

\* the deployment with its buildLog
injectBuildLog(d) ==
    IF NoRemoteId(d) THEN WithLog(d, UNDEF)
    ELSE IF Hits(d) = {} THEN WithLog(d, UNDEF)
    ELSE WithLog(d, Newest(Hits(d)).message)

\* 1 when injectBuildLog(d) searches the index, else 0
Searches(d) == IF NoRemoteId(d) THEN 0 ELSE 1

\* events keeps the topic and the publishing call; the deployment published is
\* the one the call returns (result.value)
Event(topic, c, dep) == [topic |-> topic, by |-> c.no]


(***************************************************************************)
(* Steps shared by the resolvers.                                          *)
(***************************************************************************)
\* a caller starts call c in the free slot s
Start(s, c) ==
    /\ calls[s].pc = "idle"
    /\ \A t \in Slots : t < s => calls[t].pc # "idle"
    /\ nCalls < MaxCalls
    /\ nCalls' = nCalls + 1
    /\ calls' = [calls EXCEPT ![s] = [c EXCEPT !.no = nCalls + 1]]

Set(s, c) == calls' = [calls EXCEPT ![s] = c]

\* pubSub.publish(topic, deployment); return deployment
PublishAndReturn(s, c, topic, dep) ==
    /\ events' = Append(events, Event(topic, c, dep))
    /\ Set(s, Return([c EXCEPT !.pub = Append(@, topic)], "deployment", <<dep>>))

\* a plausible slip: the event goes out before the read-back is looked at
ReadBackPublishFirst(s, c, topic) ==
    LET rows == selectDeployment(deployment, c.id) IN
    IF rows = {}
    THEN /\ events' = Append(events, Event(topic, c, WithLog(NoArg, UNDEF)))
         /\ Set(s, Reject([c EXCEPT !.pub = Append(@, topic)], "TypeError"))
    ELSE IF NoRemoteId(Row0(rows))
    THEN PublishAndReturn(s, c, topic, injectBuildLog(Row0(rows)))
    ELSE /\ Set(s, [c EXCEPT !.pc = "search", !.rows = rows])
         /\ UNCHANGED events

\* rows = await query(Sql.selectDeployment(id)); injectBuildLog(R.prop(0, rows))
\* up to its search of the index: of no row, reading deployment.remoteId throws
ReadBack(s, c, topic) ==
    LET rows == selectDeployment(deployment, c.id) IN
    IF rows = {}
    THEN /\ Set(s, Reject(c, "TypeError"))
         /\ UNCHANGED events
    ELSE IF NoRemoteId(Row0(rows))
    THEN PublishAndReturn(s, c, topic, injectBuildLog(Row0(rows)))
    ELSE /\ Set(s, [c EXCEPT !.pc = "search", !.rows = rows])
         /\ UNCHANGED events

\* a plausible slip: the enriched deployment is returned without being published
EnrichedNoPublish(s, c, topic) ==
    /\ Set(s, Return([c EXCEPT !.searches = @ + 1, !.rows = {}], "deployment",
                     <<injectBuildLog(Row0(c.rows))>>))
    /\ UNCHANGED events

\* the index answers; publish and return
Enriched(s, c, topic) ==
    PublishAndReturn(s, [c EXCEPT !.searches = @ + 1, !.rows = {}], topic,
                     injectBuildLog(Row0(c.rows)))

(***************************************************************************)
(* addDeployment                                                           *)
(***************************************************************************)
addDeployment_begin(s) ==
    /\ \E cred \in Creds, input \in AddInputs :
          Start(s, [Idle EXCEPT !.op = "addDeployment", !.cred = cred, !.arg = input,
                                !.status = deploymentStatusTypeToString(input.status),
                                !.pc = IF cred.role # "admin" THEN "perm" ELSE "insert"])
    /\ UNCHANGED <<deployment, nextId, events, token, normalized>>

\* a plausible slip: the row is inserted before the permission test is looked at
addDeployment_permAfterInsert(s) ==
    LET c == calls[s]
        rows == selectPermsForEnvironment(c.arg.environment)
        row == Dep(nextId, c.arg.name, c.status, c.arg.created, c.arg.started,
                   c.arg.completed, c.arg.environment, c.arg.remoteId) IN
    /\ c.op = "addDeployment" /\ c.pc = "perm"
    /\ IF Unauthorized(rows, c.cred)
       THEN /\ nextId \in DepIds
            /\ deployment' = deployment \cup {row}
            /\ nextId' = nextId + 1
            /\ Set(s, Reject(c, "Unauthorized."))
       ELSE /\ Set(s, [c EXCEPT !.pc = "insert"])
            /\ UNCHANGED <<deployment, nextId>>
    /\ UNCHANGED <<events, nCalls, token, normalized>>

addDeployment_perm(s) ==
    LET c == calls[s]
        rows == selectPermsForEnvironment(c.arg.environment) IN
    /\ c.op = "addDeployment" /\ c.pc = "perm"
    /\ IF Unauthorized(rows, c.cred)
       THEN Set(s, Reject(c, "Unauthorized."))
       ELSE Set(s, [c EXCEPT !.pc = "insert"])
    /\ UNCHANGED <<deployment, nextId, events, nCalls, token, normalized>>

addDeployment_insert(s) ==
    LET c == calls[s]
        id == IF c.arg.id = NoId THEN nextId ELSE c.arg.id
        row == Dep(id, c.arg.name, c.status, c.arg.created, c.arg.started,
                   c.arg.completed, c.arg.environment, c.arg.remoteId) IN
    /\ c.op = "addDeployment" /\ c.pc = "insert"
    /\ id \in DepIds
    /\ IF selectDeployment(deployment, id) # {}
       THEN /\ Set(s, Reject([c EXCEPT !.issued = @ + 1], "ER_DUP_ENTRY"))
            /\ UNCHANGED <<deployment, nextId>>
       ELSE /\ deployment' = deployment \cup {row}
            /\ nextId' = IF id >= nextId THEN id + 1 ELSE nextId
            /\ Set(s, [c EXCEPT !.pc = "select", !.id = id,
                                !.issued = @ + 1, !.changed = @ + 1])
    /\ UNCHANGED <<events, nCalls, token, normalized>>

addDeployment_select(s) ==
    /\ calls[s].op = "addDeployment" /\ calls[s].pc = "select"
    /\ ReadBack(s, calls[s], "ADDED")
    /\ UNCHANGED <<deployment, nextId, nCalls, token, normalized>>

addDeployment_search(s) ==
    /\ calls[s].op = "addDeployment" /\ calls[s].pc = "search"
    /\ Enriched(s, calls[s], "ADDED")
    /\ UNCHANGED <<deployment, nextId, nCalls, token, normalized>>

(***************************************************************************)
(* deleteDeployment                                                        *)
(***************************************************************************)
deleteDeployment_begin(s) ==
    /\ \E cred \in Creds, id \in TargetIds :
          Start(s, [Idle EXCEPT !.op = "deleteDeployment", !.cred = cred, !.id = id,
                                !.pc = IF cred.role # "admin" THEN "perm" ELSE "delete"])
    /\ UNCHANGED <<deployment, nextId, events, token, normalized>>

deleteDeployment_perm(s) ==
    LET c == calls[s]
        rows == selectPermsForDeployment(deployment, c.id) IN
    /\ c.op = "deleteDeployment" /\ c.pc = "perm"
    /\ IF Unauthorized(rows, c.cred)
       THEN Set(s, Reject(c, "Unauthorized."))
       ELSE Set(s, [c EXCEPT !.pc = "delete"])
    /\ UNCHANGED <<deployment, nextId, events, nCalls, token, normalized>>

deleteDeployment_delete(s) ==
    LET c == calls[s] IN
    /\ c.op = "deleteDeployment" /\ c.pc = "delete"
    /\ deployment' = sqlDeleteDeployment(deployment, c.id)
    /\ Set(s, Return([c EXCEPT !.issued = @ + 1,
                               !.changed = @ + Cardinality(selectDeployment(deployment, c.id))],
                     "success", <<>>))
    /\ UNCHANGED <<nextId, events, nCalls, token, normalized>>

(***************************************************************************)
(* updateDeployment                                                        *)
(***************************************************************************)
\* a plausible slip: the emptiness test left out
PatchUnchecked(c) == [c EXCEPT !.pc = "update"]

\* if (isPatchEmpty({ patch })) throw ...; else the UPDATE is sent
PatchChecked(c) ==
    IF isPatchEmpty(c.arg)
    THEN Reject(c, "Input patch requires at least 1 attribute")
    ELSE [c EXCEPT !.pc = "update"]

updateDeployment_begin(s) ==
    /\ \E cred \in Creds, id \in TargetIds, patch \in Patches :
          LET c == [Idle EXCEPT !.op = "updateDeployment", !.cred = cred, !.id = id,
                                !.arg = patch,
                                !.status = deploymentStatusTypeToString(patch.status)] IN
          Start(s, IF cred.role # "admin" THEN [c EXCEPT !.pc = "permCurrent"]
                   ELSE PatchChecked(c))
    /\ UNCHANGED <<deployment, nextId, events, token, normalized>>

\* Check access to modify deployment as it currently stands
updateDeployment_permCurrent(s) ==
    LET c == calls[s]
        rowsCurrent == selectPermsForDeployment(deployment, c.id) IN
    /\ c.op = "updateDeployment" /\ c.pc = "permCurrent"
    /\ IF Unauthorized(rowsCurrent, c.cred)
       THEN Set(s, Reject(c, "Unauthorized."))
       ELSE Set(s, [c EXCEPT !.pc = "permNew"])
    /\ UNCHANGED <<deployment, nextId, events, nCalls, token, normalized>>

\* a plausible slip: only the deployment as it currently stands is tested
updateDeployment_permNewSkipped(s) ==
    LET c == calls[s] IN
    /\ c.op = "updateDeployment" /\ c.pc = "permNew"
    /\ Set(s, PatchChecked(c))
    /\ UNCHANGED <<deployment, nextId, events, nCalls, token, normalized>>

\* Check access to modify deployment as it will be updated
updateDeployment_permNew(s) ==
    LET c == calls[s]
        rowsNew == selectPermsForEnvironment(c.arg.environment) IN
    /\ c.op = "updateDeployment" /\ c.pc = "permNew"
    /\ IF Unauthorized(rowsNew, c.cred)
       THEN Set(s, Reject(c, "Unauthorized."))
       ELSE Set(s, PatchChecked(c))
    /\ UNCHANGED <<deployment, nextId, events, nCalls, token, normalized>>

\* a plausible slip: the row is read before the UPDATE is sent, and that row is
\* enriched, published and returned
updateDeployment_updateReadFirst(s) ==
    LET c == calls[s]
        rows == selectDeployment(deployment, c.id)
        w == [c EXCEPT !.issued = @ + 1, !.changed = @ + Cardinality(rows)] IN
    /\ c.op = "updateDeployment" /\ c.pc = "update"
    /\ deployment' = sqlUpdateDeployment(deployment, c.id, [c.arg EXCEPT !.status = c.status])
    /\ IF rows = {}
       THEN Set(s, [w EXCEPT !.pc = "select"])
       ELSE Set(s, [w EXCEPT !.pc = "search", !.rows = rows])
    /\ UNCHANGED <<nextId, events, nCalls, token, normalized>>

updateDeployment_update(s) ==
    LET c == calls[s] IN
    /\ c.op = "updateDeployment" /\ c.pc = "update"
    /\ deployment' = sqlUpdateDeployment(deployment, c.id, [c.arg EXCEPT !.status = c.status])
    /\ Set(s, [c EXCEPT !.pc = "select", !.issued = @ + 1,
                        !.changed = @ + Cardinality(selectDeployment(deployment, c.id))])
    /\ UNCHANGED <<nextId, events, nCalls, token, normalized>>

updateDeployment_select(s) ==
    /\ calls[s].op = "updateDeployment" /\ calls[s].pc = "select"
    /\ ReadBack(s, calls[s], "UPDATED")
    /\ UNCHANGED <<deployment, nextId, nCalls, token, normalized>>

updateDeployment_search(s) ==
    /\ calls[s].op = "updateDeployment" /\ calls[s].pc = "search"
    /\ Enriched(s, calls[s], "UPDATED")
    /\ UNCHANGED <<deployment, nextId, nCalls, token, normalized>>


(***************************************************************************)
(* getDeploymentByRemoteId                                                 *)
(***************************************************************************)
getDeploymentByRemoteId_begin(s) ==
    /\ \E cred \in Creds, id \in RemoteIds :
          Start(s, [Idle EXCEPT !.op = "getDeploymentByRemoteId", !.cred = cred,
                                !.arg = [NoArg EXCEPT !.remoteId = id], !.pc = "find"])
    /\ UNCHANGED <<deployment, nextId, events, token, normalized>>

\* a plausible slip: the permission test left out
getDeploymentByRemoteId_findUntested(s) ==
    LET c == calls[s]
        rows == {r \in deployment : r.remoteId = c.arg.remoteId} IN
    /\ c.op = "getDeploymentByRemoteId" /\ c.pc = "find"
    /\ IF rows = {}
       THEN Set(s, Return(c, "null", <<>>))
       ELSE \E d \in rows : Set(s, [c EXCEPT !.rows = {d}, !.id = d.id, !.pc = "search"])
    /\ UNCHANGED <<deployment, nextId, events, nCalls, token, normalized>>

\* rows = await query(...where remote_id = id); deployment = R.prop(0, rows)
\* (the statement has no ORDER BY: any matching row may come first)
getDeploymentByRemoteId_find(s) ==
    LET c == calls[s]
        rows == {r \in deployment : r.remoteId = c.arg.remoteId} IN
    /\ c.op = "getDeploymentByRemoteId" /\ c.pc = "find"
    /\ IF rows = {}
       THEN Set(s, Return(c, "null", <<>>))
       ELSE \E d \in rows :
              Set(s, [c EXCEPT !.rows = {d}, !.id = d.id,
                               !.pc = IF c.cred.role # "admin" THEN "perm" ELSE "search"])
    /\ UNCHANGED <<deployment, nextId, events, nCalls, token, normalized>>

getDeploymentByRemoteId_perm(s) ==
    LET c == calls[s]
        rowsPerms == selectPermsForDeployment(deployment, c.id) IN
    /\ c.op = "getDeploymentByRemoteId" /\ c.pc = "perm"
    /\ IF Unauthorized(rowsPerms, c.cred)
       THEN Set(s, Reject([c EXCEPT !.rows = {}], "Unauthorized."))
       ELSE Set(s, [c EXCEPT !.pc = "search"])
    /\ UNCHANGED <<deployment, nextId, events, nCalls, token, normalized>>

\* return injectBuildLog(deployment)
getDeploymentByRemoteId_search(s) ==
    LET c == calls[s]
        d == Row0(c.rows) IN
    /\ c.op = "getDeploymentByRemoteId" /\ c.pc = "search"
    /\ Set(s, Return([c EXCEPT !.searches = @ + Searches(d), !.rows = {}],
                     "deployment", <<injectBuildLog(d)>>))
    /\ UNCHANGED <<deployment, nextId, events, nCalls, token, normalized>>

(***************************************************************************)
(* getDeploymentsByEnvironmentId                                           *)
(***************************************************************************)
\* inClauseOr([['p.customer', customers], ['p.id', projects]]) for project p
inClauseOr(p, customers, projects) ==
    p.customer \in customers \/ p.id \in projects

\* a plausible slip: the ifNotAdmin clause left out of the statement
listRowsUnscoped(table, eid, cred) ==
    { d \in table : d.environment = eid /\ \E e \in Environments : e.id = eid }

\* SELECT d.* FROM environment e JOIN deployment d ON e.id = d.environment
\* JOIN project p ON e.project = p.id WHERE e.id = :eid ${ifNotAdmin(role, AND (...))}
listRows(table, eid, cred) ==
    { d \in table :
        \E e \in Environments, p \in Projects :
            /\ e.id = d.environment
            /\ e.project = p.id
            /\ e.id = eid
            /\ (cred.role # "admin" => inClauseOr(p, cred.customers, cred.projects)) }

\* every order in which the store may hand back a set of rows
Orders(rows) ==
    { q \in [1..Cardinality(rows) -> rows] : \A i, j \in DOMAIN q : i # j => q[i] # q[j] }

\* a plausible slip: the rows are left in the order the store handed them back
insertUnsorted(sorted, r) == Append(sorted, r)

\* R.sort(R.descend(R.prop('created')), rows): a stable sort, by insertion
RECURSIVE insertDescending(_, _)
insertDescending(sorted, r) ==
    IF sorted = <<>> THEN <<r>>
    ELSE IF Head(sorted).created >= r.created
         THEN <<Head(sorted)>> \o insertDescending(Tail(sorted), r)
         ELSE <<r>> \o sorted

RECURSIVE newestFirst(_)
newestFirst(q) ==
    IF q = <<>> THEN <<>>
    ELSE insertDescending(newestFirst(SubSeq(q, 1, Len(q) - 1)), q[Len(q)])

\* rows kept by the name filter
nameFilter(q, name) ==
    SelectSeq(q, LAMBDA row : name = UNDEF \/ name = "" \/ row.name = name)

\* a plausible slip: every row is enriched, whether buildLog is requested or not
getDeploymentsByEnvironmentIdAlwaysLog(s) ==
    /\ \A t \in Slots : calls[t].pc = "idle"
    /\ \E cred \in ListCreds, eid \in {"e1", "e2"}, name \in NameFilters, wantLog \in BOOLEAN :
         \E q \in Orders(listRows(deployment, eid, cred)) :
            LET kept == nameFilter(newestFirst(q), name)
                out == [i \in 1..Len(kept) |-> injectBuildLog(kept[i])]
                n == Cardinality({i \in 1..Len(kept) : ~NoRemoteId(kept[i])})
                c == [Idle EXCEPT !.op = "getDeploymentsByEnvironmentId", !.cred = cred,
                                  !.arg = [NoArg EXCEPT !.environment = eid, !.name = name],
                                  !.wantLog = wantLog, !.searches = n] IN
            Start(s, Return(c, "list", out))
    /\ UNCHANGED <<deployment, nextId, events, token, normalized>>

\* the list call: one store statement, then per row injectBuildLog if buildLog is requested
getDeploymentsByEnvironmentId(s) ==
    /\ \A t \in Slots : calls[t].pc = "idle"
    /\ \E cred \in ListCreds, eid \in {"e1", "e2"}, name \in NameFilters, wantLog \in BOOLEAN :
         \E q \in Orders(listRows(deployment, eid, cred)) :
            LET kept == nameFilter(newestFirst(q), name)
                out == [i \in 1..Len(kept) |->
                          IF wantLog THEN injectBuildLog(kept[i]) ELSE WithLog(kept[i], UNDEF)]
                n == IF wantLog
                     THEN Cardinality({i \in 1..Len(kept) : ~NoRemoteId(kept[i])})
                     ELSE 0
                c == [Idle EXCEPT !.op = "getDeploymentsByEnvironmentId", !.cred = cred,
                                  !.arg = [NoArg EXCEPT !.environment = eid, !.name = name],
                                  !.wantLog = wantLog, !.searches = n] IN
            Start(s, Return(c, "list", out))
    /\ UNCHANGED <<deployment, nextId, events, token, normalized>>


(***************************************************************************)
(* The trigger resolvers.  They read only the environment and project      *)
(* tables, which no resolver writes, and their effects are the task they   *)
(* hand to the backend and the log line they send; a trigger call is       *)
(* therefore run with no other call in flight.                             *)
(***************************************************************************)
TriggerOps ==
    {"deployEnvironmentLatest", "deployEnvironmentBranch",
     "deployEnvironmentPullrequest", "deployEnvironmentPromote"}

StartAlone(s, c) ==
    /\ \A t \in Slots : calls[t].pc = "idle"
    /\ Start(s, c)

\* environmentHelpers.getEnvironmentsByEnvironmentInput (not part of the sources
\* at hand): the environments the input selects, deleted ones included
getEnvironmentsByEnvironmentInput(input) ==
    { e \in Environments :
        IF input.id # UNDEF THEN e.id = input.id
        ELSE e.name = input.name /\ e.project = input.project }

\* a plausible slip: the filter on deleted left out
allEnvironments(environments) == environments

\* R.filter(R.propEq('deleted', '0000-00-00 00:00:00'), environments)
activeEnvironments(environments) == {e \in environments : e.deleted = NotDeleted}

\* projectHelpers.getProjectById / getProjectByProjectInput (not part of the
\* sources at hand): the project rows of that id
getProject(pid) == {p \in Projects : p.id = pid}

\* name.replace('pr-', ''): the first occurrence cut out
replacePr(name) ==
    LET at == {i \in 1..Len(name) : i + 2 <= Len(name) /\ SubSeq(name, i, i + 2) = N_prDash} IN
    IF at = {} THEN name
    ELSE LET i == CHOOSE k \in at : \A m \in at : k <= m IN
         SubSeq(name, 1, i - 1) \o SubSeq(name, i + 3, Len(name))

\* `origin/${ref}`
origin(ref) == N_origin \o ref

\* a plausible slip: the promote case hands its payload to createDeployTask
latestTaskAllDeploy(environment, project) ==
    LET base == [NoData EXCEPT !.projectName = project.name, !.type = environment.deployType] IN
    CASE environment.deployType = "branch" ->
           [fn |-> "createDeployTask",
            data |-> [base EXCEPT !.branchName = environment.deployBaseRef]]
      [] environment.deployType = "pullrequest" ->
           [fn |-> "createDeployTask",
            data |-> [base EXCEPT !.pullrequestTitle = environment.deployTitle,
                                  !.pullrequestNumber = replacePr(environment.name),
                                  !.headBranchName = environment.deployHeadRef,
                                  !.headSha = origin(environment.deployHeadRef),
                                  !.baseBranchName = environment.deployBaseRef,
                                  !.baseSha = origin(environment.deployBaseRef),
                                  !.branchName = environment.name]]
      [] environment.deployType = "promote" ->
           [fn |-> "createDeployTask",
            data |-> [base EXCEPT !.branchName = environment.name,
                                  !.promoteSourceEnvironment = environment.deployBaseRef]]
      [] OTHER -> NoTask

\* the switch on environment.deployType of deployEnvironmentLatest
latestTask(environment, project) ==
    LET base == [NoData EXCEPT !.projectName = project.name, !.type = environment.deployType] IN
    CASE environment.deployType = "branch" ->
           [fn |-> "createDeployTask",
            data |-> [base EXCEPT !.branchName = environment.deployBaseRef]]
      [] environment.deployType = "pullrequest" ->
           [fn |-> "createDeployTask",
            data |-> [base EXCEPT !.pullrequestTitle = environment.deployTitle,
                                  !.pullrequestNumber = replacePr(environment.name),
                                  !.headBranchName = environment.deployHeadRef,
                                  !.headSha = origin(environment.deployHeadRef),
                                  !.baseBranchName = environment.deployBaseRef,
                                  !.baseSha = origin(environment.deployBaseRef),
                                  !.branchName = environment.name]]
      [] environment.deployType = "promote" ->
           [fn |-> "createPromoteTask",
            data |-> [base EXCEPT !.branchName = environment.name,
                                  !.promoteSourceEnvironment = environment.deployBaseRef]]
      [] OTHER -> NoTask

\* a plausible slip: || for && in the test of a pullrequest environment
latestCheckedAnyEmpty(c, environment) ==
    LET project == Row0(getProject(environment.project))
        t == environment.deployType IN
    IF t \in {"branch", "promote"} /\ environment.deployBaseRef = <<>>
    THEN Reject(c, "Cannot deploy: deployBaseRef is empty")
    ELSE IF /\ t = "pullrequest"
            /\ \/ environment.deployBaseRef = <<>>
               \/ environment.deployHeadRef = <<>>
               \/ environment.deployTitle = <<>>
    THEN Reject(c, "Cannot deploy: deployBaseRef, deployHeadRef or deployTitle is empty")
    ELSE IF t \notin {"branch", "pullrequest", "promote"}
    THEN Return(c, "Error: Unkown deploy type " \o t, <<>>)
    ELSE [c EXCEPT !.pc = "task", !.task = latestTask(environment, project)]

\* a plausible slip: the default case of the switch throws, as the required-field
\* checks do
latestCheckedUnknownThrown(c, environment) ==
    LET project == Row0(getProject(environment.project))
        t == environment.deployType IN
    IF t \in {"branch", "promote"} /\ environment.deployBaseRef = <<>>
    THEN Reject(c, "Cannot deploy: deployBaseRef is empty")
    ELSE IF /\ t = "pullrequest"
            /\ environment.deployBaseRef = <<>>
            /\ environment.deployHeadRef = <<>>
            /\ environment.deployTitle = <<>>
    THEN Reject(c, "Cannot deploy: deployBaseRef, deployHeadRef or deployTitle is empty")
    ELSE IF t \notin {"branch", "pullrequest", "promote"}
    THEN Reject(c, "Error: Unkown deploy type " \o t)
    ELSE [c EXCEPT !.pc = "task", !.task = latestTask(environment, project)]

\* deployEnvironmentLatest from the required-field checks to the task being handed over
latestChecked(c, environment) ==
    LET project == Row0(getProject(environment.project))
        t == environment.deployType IN
    IF t \in {"branch", "promote"} /\ environment.deployBaseRef = <<>>
    THEN Reject(c, "Cannot deploy: deployBaseRef is empty")
    ELSE IF /\ t = "pullrequest"
            /\ environment.deployBaseRef = <<>>
            /\ environment.deployHeadRef = <<>>
            /\ environment.deployTitle = <<>>
    THEN Reject(c, "Cannot deploy: deployBaseRef, deployHeadRef or deployTitle is empty")
    ELSE IF t \notin {"branch", "pullrequest", "promote"}
    THEN Return(c, "Error: Unkown deploy type " \o t, <<>>)
    ELSE [c EXCEPT !.pc = "task", !.task = latestTask(environment, project)]

\* a plausible slip: the case of NoNeedToDeployBranch left out of the switch
classifyAllErrors(c, outcome) ==
    LET d == [c EXCEPT !.tasks = Append(@, c.task)] IN
    IF outcome.name = "ok"
    THEN Return([d EXCEPT !.logs = Append(@, "info")], "success", <<>>)
    ELSE Return([d EXCEPT !.logs = Append(@, "error")], "Error: " \o outcome.message, <<>>)

\* a plausible slip: the default case throws the error on
classifyRethrow(c, outcome) ==
    LET d == [c EXCEPT !.tasks = Append(@, c.task)] IN
    IF outcome.name = "ok"
    THEN Return([d EXCEPT !.logs = Append(@, "info")], "success", <<>>)
    ELSE IF outcome.name = "NoNeedToDeployBranch"
    THEN Return([d EXCEPT !.logs = Append(@, "info")], "Skipped: " \o outcome.message, <<>>)
    ELSE Reject([d EXCEPT !.logs = Append(@, "error")], outcome.message)

\* a plausible slip: the default case calls the task function once more
classifyRetry(c, outcome) ==
    LET d == [c EXCEPT !.tasks = Append(@, c.task)] IN
    IF outcome.name = "ok"
    THEN Return([d EXCEPT !.logs = Append(@, "info")], "success", <<>>)
    ELSE IF outcome.name = "NoNeedToDeployBranch"
    THEN Return([d EXCEPT !.logs = Append(@, "info")], "Skipped: " \o outcome.message, <<>>)
    ELSE Return([d EXCEPT !.tasks = Append(@, c.task), !.logs = Append(@, "error")],
                "Error: " \o outcome.message, <<>>)

\* try { await taskFunction(deployData); ... } catch (error) { switch (error.name) ... }
classify(c, outcome) ==
    LET d == [c EXCEPT !.tasks = Append(@, c.task)] IN
    IF outcome.name = "ok"
    THEN Return([d EXCEPT !.logs = Append(@, "info")], "success", <<>>)
    ELSE IF outcome.name = "NoNeedToDeployBranch"
    THEN Return([d EXCEPT !.logs = Append(@, "info")], "Skipped: " \o outcome.message, <<>>)
    ELSE Return([d EXCEPT !.logs = Append(@, "error")], "Error: " \o outcome.message, <<>>)

\* the task backend answers the call in slot s
trigger_task(s) ==
    /\ calls[s].op \in TriggerOps /\ calls[s].pc = "task"
    /\ \E outcome \in TaskOutcomes : Set(s, classify(calls[s], outcome))
    /\ UNCHANGED <<deployment, nextId, events, nCalls, token, normalized>>

deployEnvironmentLatest_begin(s) ==
    /\ \E cred \in Creds, input \in EnvironmentInputs :
          StartAlone(s, [Idle EXCEPT !.op = "deployEnvironmentLatest", !.cred = cred,
                                     !.sel = input, !.pc = "resolve"])
    /\ UNCHANGED <<deployment, nextId, events, token, normalized>>

deployEnvironmentLatest_resolve(s) ==
    LET c == calls[s]
        active == activeEnvironments(getEnvironmentsByEnvironmentInput(c.sel)) IN
    /\ c.op = "deployEnvironmentLatest" /\ c.pc = "resolve"
    /\ IF Cardinality(active) < 1 \/ Cardinality(active) > 1
       THEN Set(s, Reject(c, "Unauthorized"))
       ELSE IF c.cred.role # "admin"
       THEN Set(s, [c EXCEPT !.pc = "perm", !.envs = active])
       ELSE Set(s, latestChecked([c EXCEPT !.envs = active], Row0(active)))
    /\ UNCHANGED <<deployment, nextId, events, nCalls, token, normalized>>

deployEnvironmentLatest_perm(s) ==
    LET c == calls[s]
        environment == Row0(c.envs)
        rows == selectPermsForEnvironment(environment.id) IN
    /\ c.op = "deployEnvironmentLatest" /\ c.pc = "perm"
    /\ IF Unauthorized(rows, c.cred)
       THEN Set(s, Reject(c, "Unauthorized."))
       ELSE Set(s, latestChecked(c, environment))
    /\ UNCHANGED <<deployment, nextId, events, nCalls, token, normalized>>


\* inputs of the direct triggers
InBranchName == N_feature
InBranchRef  == <<"a","1">>
InNumber     == <<"7">>
InTitle      == N_Fix
InBaseName   == N_main
InBaseRef    == <<"b","2">>
InHeadName   == N_feature
InHeadRef    == <<"a","1">>
InPromoteTo  == N_prod

\* how a project input that names no project ends: the helper throws, or the
\* resolver reads project.id of undefined
NoProjectErrors == {"Unauthorized", "TypeError"}

\* project = await projectHelpers.getProjectByProjectInput(projectInput), then
\* the permission test for non-admins, else on to `next`
projectResolved(s, c, next) ==
    IF getProject(c.proj) = {}
    THEN \E msg \in NoProjectErrors : Set(s, Reject(c, msg))
    ELSE IF c.cred.role # "admin"
    THEN Set(s, [c EXCEPT !.pc = "perm"])
    ELSE Set(s, next)

\* the permission test on the project of the input
projectPermitted(s, c, next) ==
    LET rows == selectPermsForProject(Row0(getProject(c.proj)).id) IN
    IF Unauthorized(rows, c.cred)
    THEN Set(s, Reject(c, "Unauthorized."))
    ELSE Set(s, next)

branchTask(project) ==
    [fn |-> "createDeployTask",
     data |-> [NoData EXCEPT !.type = "branch", !.projectName = project.name,
                             !.branchName = InBranchName, !.sha = InBranchRef]]

deployEnvironmentBranch_begin(s) ==
    /\ \E cred \in Creds, projectInput \in ProjectInputs :
          StartAlone(s, [Idle EXCEPT !.op = "deployEnvironmentBranch", !.cred = cred,
                                     !.proj = projectInput, !.pc = "project"])
    /\ UNCHANGED <<deployment, nextId, events, token, normalized>>

deployEnvironmentBranch_project(s) ==
    LET c == calls[s] IN
    /\ c.op = "deployEnvironmentBranch" /\ c.pc = "project"
    /\ projectResolved(s, c, [c EXCEPT !.pc = "task",
                                       !.task = branchTask(Row0(getProject(c.proj)))])
    /\ UNCHANGED <<deployment, nextId, events, nCalls, token, normalized>>

deployEnvironmentBranch_perm(s) ==
    LET c == calls[s] IN
    /\ c.op = "deployEnvironmentBranch" /\ c.pc = "perm"
    /\ projectPermitted(s, c, [c EXCEPT !.pc = "task",
                                        !.task = branchTask(Row0(getProject(c.proj)))])
    /\ UNCHANGED <<deployment, nextId, events, nCalls, token, normalized>>

pullrequestTask(project) ==
    [fn |-> "createDeployTask",
     data |-> [NoData EXCEPT !.type = "pullrequest", !.projectName = project.name,
                             !.pullrequestTitle = InTitle,
                             !.pullrequestNumber = InNumber,
                             !.headBranchName = InHeadName, !.headSha = InHeadRef,
                             !.baseBranchName = InBaseName, !.baseSha = InBaseRef,
                             !.branchName = N_prDash \o InNumber]]

deployEnvironmentPullrequest_begin(s) ==
    /\ \E cred \in Creds, projectInput \in ProjectInputs :
          StartAlone(s, [Idle EXCEPT !.op = "deployEnvironmentPullrequest", !.cred = cred,
                                     !.proj = projectInput, !.pc = "project"])
    /\ UNCHANGED <<deployment, nextId, events, token, normalized>>

deployEnvironmentPullrequest_project(s) ==
    LET c == calls[s] IN
    /\ c.op = "deployEnvironmentPullrequest" /\ c.pc = "project"
    /\ projectResolved(s, c, [c EXCEPT !.pc = "task",
                                       !.task = pullrequestTask(Row0(getProject(c.proj)))])
    /\ UNCHANGED <<deployment, nextId, events, nCalls, token, normalized>>

deployEnvironmentPullrequest_perm(s) ==
    LET c == calls[s] IN
    /\ c.op = "deployEnvironmentPullrequest" /\ c.pc = "perm"
    /\ projectPermitted(s, c, [c EXCEPT !.pc = "task",
                                        !.task = pullrequestTask(Row0(getProject(c.proj)))])
    /\ UNCHANGED <<deployment, nextId, events, nCalls, token, normalized>>

promoteTask(destProject, sourceEnvironment) ==
    [fn |-> "createPromoteTask",
     data |-> [NoData EXCEPT !.type = "promote", !.projectName = destProject.name,
                             !.branchName = InPromoteTo,
                             !.promoteSourceEnvironment = sourceEnvironment.name]]

deployEnvironmentPromote_begin(s) ==
    /\ \E cred \in Creds, projectInput \in ProjectInputs, input \in EnvironmentInputs :
          StartAlone(s, [Idle EXCEPT !.op = "deployEnvironmentPromote", !.cred = cred,
                                     !.proj = projectInput, !.sel = input,
                                     !.pc = "project"])
    /\ UNCHANGED <<deployment, nextId, events, token, normalized>>

\* a plausible slip: the source environment is resolved before the test of the
\* destination project
deployEnvironmentPromote_projectSourceFirst(s) ==
    LET c == calls[s]
        active == activeEnvironments(getEnvironmentsByEnvironmentInput(c.sel)) IN
    /\ c.op = "deployEnvironmentPromote" /\ c.pc = "project"
    /\ IF getProject(c.proj) # {} /\ Cardinality(active) # 1
       THEN Set(s, Reject(c, "Unauthorized"))
       ELSE projectResolved(s, c, [c EXCEPT !.pc = "resolve"])
    /\ UNCHANGED <<deployment, nextId, events, nCalls, token, normalized>>

deployEnvironmentPromote_project(s) ==
    LET c == calls[s] IN
    /\ c.op = "deployEnvironmentPromote" /\ c.pc = "project"
    /\ projectResolved(s, c, [c EXCEPT !.pc = "resolve"])
    /\ UNCHANGED <<deployment, nextId, events, nCalls, token, normalized>>

deployEnvironmentPromote_perm(s) ==
    LET c == calls[s] IN
    /\ c.op = "deployEnvironmentPromote" /\ c.pc = "perm"
    /\ projectPermitted(s, c, [c EXCEPT !.pc = "resolve"])
    /\ UNCHANGED <<deployment, nextId, events, nCalls, token, normalized>>

deployEnvironmentPromote_resolve(s) ==
    LET c == calls[s]
        active == activeEnvironments(getEnvironmentsByEnvironmentInput(c.sel))
        ready == [c EXCEPT !.pc = "task", !.envs = active,
                           !.task = promoteTask(Row0(getProject(c.proj)), Row0(active))] IN
    /\ c.op = "deployEnvironmentPromote" /\ c.pc = "resolve"
    /\ IF Cardinality(active) < 1 \/ Cardinality(active) > 1
       THEN Set(s, Reject(c, "Unauthorized"))
       ELSE IF c.cred.role # "admin"
       THEN Set(s, [c EXCEPT !.pc = "permSource", !.envs = active])
       ELSE Set(s, ready)
    /\ UNCHANGED <<deployment, nextId, events, nCalls, token, normalized>>

deployEnvironmentPromote_permSource(s) ==
    LET c == calls[s]
        sourceEnvironment == Row0(c.envs)
        rows == selectPermsForEnvironment(sourceEnvironment.id) IN
    /\ c.op = "deployEnvironmentPromote" /\ c.pc = "permSource"
    /\ IF Unauthorized(rows, c.cred)
       THEN Set(s, Reject(c, "Unauthorized."))
       ELSE Set(s, [c EXCEPT !.pc = "task",
                             !.task = promoteTask(Row0(getProject(c.proj)), sourceEnvironment)])
    /\ UNCHANGED <<deployment, nextId, events, nCalls, token, normalized>>

(***************************************************************************)
(* The caller receives the result; the slot is free again.                 *)
(***************************************************************************)
respond(s) ==
    /\ calls[s].pc = "done"
    /\ Set(s, Idle)
    /\ UNCHANGED <<deployment, nextId, events, nCalls, token, normalized>>

(***************************************************************************)
(* The resolvers under concurrent callers.                                 *)
(***************************************************************************)
NoToken == <<"<none>">>

Init ==
    /\ deployment = InitialDeployments
    /\ nextId = Cardinality(InitialDeployments) + 1
    /\ events = <<>>
    /\ calls = [s \in Slots |-> Idle]
    /\ nCalls = 0
    /\ token = NoToken
    /\ normalized = <<>>

Next ==
    \E s \in Slots :
        \/ addDeployment_begin(s)
        \/ addDeployment_perm(s)
        \/ addDeployment_insert(s)
        \/ addDeployment_select(s)
        \/ addDeployment_search(s)
        \/ deleteDeployment_begin(s)
        \/ deleteDeployment_perm(s)
        \/ deleteDeployment_delete(s)
        \/ updateDeployment_begin(s)
        \/ updateDeployment_permCurrent(s)
        \/ updateDeployment_permNew(s)
        \/ updateDeployment_update(s)
        \/ updateDeployment_select(s)
        \/ updateDeployment_search(s)
        \/ getDeploymentByRemoteId_begin(s)
        \/ getDeploymentByRemoteId_find(s)
        \/ getDeploymentByRemoteId_perm(s)
        \/ getDeploymentByRemoteId_search(s)
        \/ getDeploymentsByEnvironmentId(s)
        \/ deployEnvironmentLatest_begin(s)
        \/ deployEnvironmentLatest_resolve(s)
        \/ deployEnvironmentLatest_perm(s)
        \/ deployEnvironmentBranch_begin(s)
        \/ deployEnvironmentBranch_project(s)
        \/ deployEnvironmentBranch_perm(s)
        \/ deployEnvironmentPullrequest_begin(s)
        \/ deployEnvironmentPullrequest_project(s)
        \/ deployEnvironmentPullrequest_perm(s)
        \/ deployEnvironmentPromote_begin(s)
        \/ deployEnvironmentPromote_project(s)
        \/ deployEnvironmentPromote_perm(s)
        \/ deployEnvironmentPromote_resolve(s)
        \/ deployEnvironmentPromote_permSource(s)
        \/ trigger_task(s)
        \/ respond(s)

Spec == Init /\ [][Next]_vars

(***************************************************************************)
(* The trigger resolvers on their own: they neither read nor write the     *)
(* deployment table and publish no event.                                  *)
(***************************************************************************)
NextTrigger ==
    \E s \in Slots :
        \/ deployEnvironmentLatest_begin(s)
        \/ deployEnvironmentLatest_resolve(s)
        \/ deployEnvironmentLatest_perm(s)
        \/ deployEnvironmentBranch_begin(s)
        \/ deployEnvironmentBranch_project(s)
        \/ deployEnvironmentBranch_perm(s)
        \/ deployEnvironmentPullrequest_begin(s)
        \/ deployEnvironmentPullrequest_project(s)
        \/ deployEnvironmentPullrequest_perm(s)
        \/ deployEnvironmentPromote_begin(s)
        \/ deployEnvironmentPromote_project(s)
        \/ deployEnvironmentPromote_perm(s)
        \/ deployEnvironmentPromote_resolve(s)
        \/ deployEnvironmentPromote_permSource(s)
        \/ trigger_task(s)
        \/ respond(s)

SpecTrigger == Init /\ [][NextTrigger]_vars


(***************************************************************************)
(* The status normalizer on its own: a token is drawn, and the normalizer  *)
(* is applied to it and then to its own result.                            *)
(***************************************************************************)
RecognizedTokens ==
    {S_NEW, S_PENDING, S_RUNNING, S_CANCELLED, S_ERROR, S_FAILED, S_COMPLETE}

\* every spelling of t in upper and lower case letters
Spellings(t) ==
    { [i \in 1..Len(t) |-> IF i \in up THEN UpperChar(t[i]) ELSE LowerChar(t[i])] :
        up \in SUBSET (1..Len(t)) }

\* tokens that are no spelling of a recognized one
OtherTokens ==
    { <<>>, UndefStatus,
      <<"Q","U","E","U","E","D">>, <<"q","u","e","u","e","d">>,
      <<"N","E","W","S">>, <<"N","E">>, <<"N","E","W"," ">>,
      <<"D","o","n","e">>, <<"4","2">> }

Tokens == UNION { Spellings(t) : t \in RecognizedTokens } \cup OtherTokens

InitNormalize ==
    /\ deployment = InitialDeployments
    /\ nextId = Cardinality(InitialDeployments) + 1
    /\ events = <<>>
    /\ calls = [s \in Slots |-> Idle]
    /\ nCalls = 0
    /\ token \in Tokens
    /\ normalized = <<>>

\* deploymentStatusTypeToString applied to the token, or to its last result
normalize ==
    /\ Len(normalized) < MaxApply
    /\ normalized' = Append(normalized,
                            deploymentStatusTypeToString(
                                IF normalized = <<>> THEN token
                                ELSE normalized[Len(normalized)]))
    /\ UNCHANGED <<deployment, nextId, events, calls, nCalls, token>>

SpecNormalize == InitNormalize /\ [][normalize]_vars

(***************************************************************************)
(* C8 (as claimed): each of the seven status tokens, in any letter case,   *)
(* is returned in lower case, and every other token is returned unchanged. *)
(***************************************************************************)
C8_AnyCaseLowered ==
    Len(normalized) >= 1 =>
        IF \E t \in RecognizedTokens : token \in Spellings(t)
        THEN normalized[1] = toLower(token)
        ELSE normalized[1] = token

(***************************************************************************)
(* C8 (amended): each of the seven status tokens written in upper case is  *)
(* returned in lower case; every other token, other spellings of the seven *)
(* included, is returned unchanged; the normalizer has a result for every  *)
(* token.                                                                  *)
(***************************************************************************)
C8_NormalizeUpperCaseOnly ==
    Len(normalized) >= 1 =>
        IF token \in RecognizedTokens
        THEN normalized[1] = toLower(token) /\ normalized[1] # token
        ELSE normalized[1] = token

\* an upper-case token has been lowered and a mixed-case spelling passed through
C8_Witness ==
    /\ Len(normalized) >= 1
    /\ \/ token = S_CANCELLED /\ normalized[1] = <<"c","a","n","c","e","l","l","e","d">>
       \/ token = <<"N","e","w">> /\ normalized[1] = <<"N","e","w">>

(***************************************************************************)
(* C9: the status normalizer is idempotent: applied to its own result it   *)
(* returns that result.                                                    *)
(***************************************************************************)
C9_NormalizeIdempotent ==
    Len(normalized) >= 2 => normalized[2] = normalized[1]

\* the normalizer has been applied twice to a token it changes
C9_Witness ==
    /\ Len(normalized) >= 2
    /\ token = S_RUNNING
    /\ normalized[1] # token


(***************************************************************************)
(* What the claims speak of.                                               *)
(***************************************************************************)
\* the owning project and customer of an environment, of a project and of a
\* deployment (through its environment); undefined where there is none
ProjectOfEnvironment(eid) ==
    IF \E e \in Environments : e.id = eid
    THEN (CHOOSE e \in Environments : e.id = eid).project
    ELSE UNDEF

CustomerOfProject(pid) ==
    IF \E p \in Projects : p.id = pid
    THEN (CHOOSE p \in Projects : p.id = pid).customer
    ELSE UNDEF

EnvironmentOfDeployment(table, id) ==
    IF \E d \in table : d.id = id
    THEN (CHOOSE d \in table : d.id = id).environment
    ELSE UNDEF

\* the decision of the permission model for a target owned by project pid
InScope(cred, pid) ==
    \/ cred.role = "admin"
    \/ pid \in cred.projects
    \/ CustomerOfProject(pid) \in cred.customers

\* the steps at which a call tests the caller's permission
PermPcs == {"perm", "permCurrent", "permNew", "permSource"}

\* the project owning the target of the permission test call c is about to make
TargetProject(c) ==
    CASE c.op = "addDeployment" -> ProjectOfEnvironment(c.arg.environment)
      [] c.op \in {"deleteDeployment", "getDeploymentByRemoteId"} ->
           ProjectOfEnvironment(EnvironmentOfDeployment(deployment, c.id))
      [] c.op = "updateDeployment" /\ c.pc = "permCurrent" ->
           ProjectOfEnvironment(EnvironmentOfDeployment(deployment, c.id))
      [] c.op = "updateDeployment" /\ c.pc = "permNew" ->
           ProjectOfEnvironment(c.arg.environment)
      [] c.op = "deployEnvironmentLatest" -> Row0(c.envs).project
      [] c.op = "deployEnvironmentPromote" /\ c.pc = "permSource" -> Row0(c.envs).project
      [] OTHER -> c.proj

RejectedAs(c, msg) == c.result.kind = "reject" /\ c.result.msg = msg

Writers == {"addDeployment", "updateDeployment", "deleteDeployment"}

(***************************************************************************)
(* C1: at every permission test of createDeployment, deleteDeployment,     *)
(* updateDeployment, getDeploymentByRemoteId and the triggers the call is  *)
(* rejected as unauthorized exactly when the target's owning project is    *)
(* not in the caller's project set and its owning customer is not in the   *)
(* caller's customer set (a target without owner is always rejected); an   *)
(* admin is never tested and never rejected as unauthorized by a test.     *)
(***************************************************************************)
C1_PermissionDecision ==
    [][\A s \in Slots :
         LET c == calls[s]
             d == calls'[s] IN
         /\ (c.pc \in PermPcs /\ d.pc # c.pc) =>
                /\ c.cred.role # "admin"
                /\ RejectedAs(d, "Unauthorized.") <=> ~InScope(c.cred, TargetProject(c))
         /\ (RejectedAs(d, "Unauthorized.") /\ ~RejectedAs(c, "Unauthorized.")) =>
                c.pc \in PermPcs
         /\ d.cred.role = "admin" => d.pc \notin PermPcs
      ]_vars

\* a caller whose customer set alone covers the target has passed the test of
\* addDeployment, while another caller's test found no owner at all
C1_Witness ==
    \E s, t \in Slots :
        /\ calls[s].op = "addDeployment" /\ calls[s].pc = "insert"
        /\ calls[s].cred = Cred("user", {"c2"}, {})
        /\ calls[t].op = "deleteDeployment" /\ RejectedAs(calls[t], "Unauthorized.")
        /\ calls[t].cred = Cred("user", {"c2"}, {"p1"})

(***************************************************************************)
(* C2: a createDeployment, updateDeployment or deleteDeployment call that  *)
(* is rejected as unauthorized has sent no write to the store, changed no  *)
(* row and published no event, and the step that rejects it leaves the     *)
(* deployment table and the published events as they were.                 *)
(***************************************************************************)
C2_UnauthorizedNoEffect ==
    [][\A s \in Slots :
         LET c == calls[s]
             d == calls'[s] IN
         (d.op \in Writers /\ RejectedAs(d, "Unauthorized.")) =>
            /\ d.issued = 0
            /\ d.changed = 0
            /\ d.pub = <<>>
            /\ ~RejectedAs(c, "Unauthorized.") =>
                   deployment' = deployment /\ events' = events
      ]_vars

\* each of the three has been rejected as unauthorized
C2_Witness ==
    \E s, t \in Slots :
        /\ calls[s].op = "addDeployment" /\ RejectedAs(calls[s], "Unauthorized.")
        /\ calls[t].op = "updateDeployment" /\ RejectedAs(calls[t], "Unauthorized.")


(***************************************************************************)
(* C3: an updateDeployment call of a non-admin whose patch names an        *)
(* environment sends its UPDATE only after the test of the deployment's    *)
(* current owner has passed and then the test of the new environment's     *)
(* owner has passed; a call that fails either test is rejected as          *)
(* unauthorized at that step, with no write sent and the table unchanged.  *)
(***************************************************************************)
C3_TwoSidedCheck ==
    [][\A s \in Slots :
         LET c == calls[s]
             d == calls'[s]
             moving == /\ d.op = "updateDeployment"
                       /\ d.cred.role # "admin"
                       /\ d.arg.environment # UNDEF IN
         moving =>
            /\ (d.pc = "permNew" /\ c.pc # "permNew") =>
                   /\ c.pc = "permCurrent"
                   /\ InScope(c.cred, ProjectOfEnvironment(
                                         EnvironmentOfDeployment(deployment, c.id)))
            /\ (d.pc = "update" /\ c.pc # "update") =>
                   /\ c.pc = "permNew"
                   /\ InScope(c.cred, ProjectOfEnvironment(c.arg.environment))
            /\ d.issued > c.issued => c.pc = "update"
            /\ (c.pc = "permCurrent" /\ d.pc # c.pc /\
                ~InScope(c.cred, ProjectOfEnvironment(
                                    EnvironmentOfDeployment(deployment, c.id)))) =>
                   /\ RejectedAs(d, "Unauthorized.")
                   /\ d.issued = 0 /\ deployment' = deployment
            /\ (c.pc = "permNew" /\ d.pc # c.pc /\
                ~InScope(c.cred, ProjectOfEnvironment(c.arg.environment))) =>
                   /\ RejectedAs(d, "Unauthorized.")
                   /\ d.issued = 0 /\ deployment' = deployment
      ]_vars

\* a non-admin has moved deployment 1 to environment e2: both tests passed and
\* the UPDATE is written
C3_Witness ==
    \E s \in Slots :
        /\ calls[s].op = "updateDeployment"
        /\ calls[s].cred.role # "admin"
        /\ calls[s].arg.environment = "e2"
        /\ calls[s].issued = 1 /\ calls[s].changed = 1
        /\ \E r \in deployment : r.id = 1 /\ r.environment = "e2"

(***************************************************************************)
(* C4: a non-admin who has passed the test of the deployment's current     *)
(* owner and whose non-empty patch names no environment is not rejected as *)
(* unauthorized: the update goes on to be written.                         *)
(***************************************************************************)
C4_NoSecondCheckWithoutEnvironment ==
    [][\A s \in Slots :
         LET c == calls[s]
             d == calls'[s] IN
         (/\ c.op = "updateDeployment"
          /\ c.pc = "permNew"
          /\ c.arg.environment = UNDEF
          /\ ~isPatchEmpty(c.arg)
          /\ d.pc # c.pc) =>
            /\ ~RejectedAs(d, "Unauthorized.")
            /\ d.pc = "update"
      ]_vars

(***************************************************************************)
(* C5 (as claimed): for every caller, updateDeployment with an empty patch *)
(* is rejected with the 'at least 1 attribute' validation failure, sends   *)
(* no write and publishes no event.                                        *)
(***************************************************************************)
C5_EmptyPatchValidationForAll ==
    \A s \in Slots :
        LET c == calls[s] IN
        (c.op = "updateDeployment" /\ isPatchEmpty(c.arg) /\ c.pc = "done") =>
            /\ RejectedAs(c, "Input patch requires at least 1 attribute")
            /\ c.issued = 0
            /\ c.pub = <<>>

(***************************************************************************)
(* C5 (amended): updateDeployment with an empty patch never sends a write  *)
(* and never publishes an event, and it ends in a rejection for every      *)
(* caller; for an admin caller the rejection is the 'at least 1 attribute' *)
(* validation failure, and for a non-admin caller, whose permission tests  *)
(* run before the patch test, it is that failure or the authorization      *)
(* failure.                                                                *)
(***************************************************************************)
C5_EmptyPatchRejected ==
    \A s \in Slots :
        LET c == calls[s] IN
        (c.op = "updateDeployment" /\ isPatchEmpty(c.arg)) =>
            /\ c.pc \in {"permCurrent", "permNew", "done"}
            /\ c.issued = 0 /\ c.changed = 0
            /\ c.pub = <<>>
            /\ c.pc = "done" =>
                  /\ c.result.kind = "reject"
                  /\ c.result.msg \in {"Unauthorized.",
                                       "Input patch requires at least 1 attribute"}
                  /\ c.cred.role = "admin" =>
                        c.result.msg = "Input patch requires at least 1 attribute"

\* an admin's empty patch has been rejected by the patch test
C5_Witness ==
    \E s \in Slots :
        /\ calls[s].op = "updateDeployment"
        /\ calls[s].cred.role = "admin"
        /\ isPatchEmpty(calls[s].arg)
        /\ RejectedAs(calls[s], "Input patch requires at least 1 attribute")

(***************************************************************************)
(* C6: updateDeployment with a non-empty patch, at each of its steps that  *)
(* finds no stored deployment of the given id: the permission test of a   *)
(* non-admin rejects the call; the UPDATE changes no row; the read-back    *)
(* ends the call in a rejection, never a return value, with no event       *)
(* published; and each of these steps leaves the table and the published   *)
(* events as they were.                                                    *)
(***************************************************************************)
C6_UpdateOfMissingRow ==
    [][\A s \in Slots :
         LET c == calls[s]
             d == calls'[s]
             missing == selectDeployment(deployment, c.id) = {} IN
         (c.op = "updateDeployment" /\ ~isPatchEmpty(c.arg) /\ d.pc # c.pc /\ missing) =>
            /\ c.pc = "permCurrent" =>
                  /\ d.result.kind = "reject"
                  /\ deployment' = deployment /\ events' = events
            /\ c.pc = "update" =>
                  /\ d.changed = c.changed
                  /\ deployment' = deployment /\ events' = events
            /\ c.pc = "select" =>
                  /\ d.pc = "done"
                  /\ d.result.kind = "reject"
                  /\ d.pub = <<>>
                  /\ deployment' = deployment /\ events' = events
      ]_vars

\* an admin's update of id 3, which is not stored, has been sent and has ended
\* in a rejection at the read-back
C6_Witness ==
    \E s \in Slots :
        /\ calls[s].op = "updateDeployment"
        /\ calls[s].id = 3
        /\ selectDeployment(deployment, 3) = {}
        /\ calls[s].issued = 1 /\ calls[s].changed = 0
        /\ RejectedAs(calls[s], "TypeError")
        /\ events = <<>>


\* a deployment without its build log, and the topic an operation publishes to
StripLog(d) ==
    Dep(d.id, d.name, d.status, d.created, d.started, d.completed,
        d.environment, d.remoteId)

TopicOf(op) == IF op = "addDeployment" THEN "ADDED" ELSE "UPDATED"

(***************************************************************************)
(* C7: a call has published at most one event, and only createDeployment   *)
(* (ADDED) and updateDeployment (UPDATED) publish; a call that has         *)
(* published has sent its write before, has returned the deployment it     *)
(* read back, enriched, and is not rejected; a createDeployment or         *)
(* updateDeployment call that returned has published exactly one event;    *)
(* a call that is rejected, or whose write was not sent, has published     *)
(* none; and the events published are those of the calls.                  *)
(***************************************************************************)
C7_EventAfterWrite ==
    /\ \A s \in Slots :
         LET c == calls[s] IN
         /\ Len(c.pub) <= 1
         /\ c.pub # <<>> =>
               /\ c.op \in {"addDeployment", "updateDeployment"}
               /\ c.pub = <<TopicOf(c.op)>>
               /\ c.issued = 1
               /\ c.pc = "done" /\ c.result.kind = "return"
               /\ Len(c.result.value) = 1
               /\ c.result.value[1] = injectBuildLog(StripLog(c.result.value[1]))
               /\ c.searches = Searches(c.result.value[1])
         /\ (c.op \in {"addDeployment", "updateDeployment"} /\ c.result.kind = "return") =>
               c.pub = <<TopicOf(c.op)>>
         /\ c.result.kind = "reject" => c.pub = <<>>
         /\ c.issued = 0 => c.pub = <<>>
         /\ Cardinality({i \in 1..Len(events) : events[i].by = c.no}) = Len(c.pub)
    /\ \A i \in 1..Len(events) : events[i].by \in 1..nCalls
    /\ \A i, j \in 1..Len(events) : events[i].by = events[j].by => i = j

\* an updateDeployment call has written, read back a deployment with a remote
\* id, searched the index and published UPDATED
C7_Witness ==
    \E s \in Slots :
        /\ calls[s].op = "updateDeployment"
        /\ calls[s].pub = <<"UPDATED">>
        /\ calls[s].searches = 1
        /\ calls[s].result.value[1].buildLog = "step 2"
        /\ events # <<>> /\ events[Len(events)] = [topic |-> "UPDATED", by |-> calls[s].no]

(***************************************************************************)
(* C10: a list returned to a non-admin holds no deployment whose owning    *)
(* project is outside the caller's project set and whose owning customer   *)
(* is outside the caller's customer set, whatever the two sets are; a list *)
(* returned to an admin holds every deployment of the environment (every   *)
(* one of the given name, when a name is given).                           *)
(***************************************************************************)
C10_ListScoped ==
    [][\A s \in Slots :
         LET c == calls[s]
             d == calls'[s]
             got == {d.result.value[i].id : i \in 1..Len(d.result.value)}
             named == {r \in deployment :
                          /\ r.environment = d.arg.environment
                          /\ d.arg.name \in {UNDEF, "", r.name}} IN
         (d.op = "getDeploymentsByEnvironmentId" /\ c.op # d.op) =>
            /\ \A i \in 1..Len(d.result.value) :
                  /\ StripLog(d.result.value[i]) \in deployment
                  /\ d.result.value[i].environment = d.arg.environment
                  /\ InScope(d.cred, ProjectOfEnvironment(d.result.value[i].environment))
            /\ d.cred.role = "admin" => got = {r.id : r \in named}
      ]_vars

\* a caller with both scope sets empty has been given the empty list of an
\* environment that has deployments, and names no filter
C10_Witness ==
    \E s \in Slots :
        /\ calls[s].op = "getDeploymentsByEnvironmentId"
        /\ calls[s].cred = Cred("user", {}, {})
        /\ calls[s].arg.name = UNDEF
        /\ calls[s].result.value = <<>>
        /\ \E r \in deployment : r.environment = calls[s].arg.environment

(***************************************************************************)
(* C11: the list getDeploymentsByEnvironmentId returns holds each visible  *)
(* deployment the environment has at the call once, one created later      *)
(* before one created earlier; given a name it holds exactly the visible   *)
(* ones of that name, and given no name, or the empty name, all of them.   *)
(***************************************************************************)
C11_ListOrderedAndFiltered ==
    [][\A s \in Slots :
         LET c == calls'[s]
             out == c.result.value
             visible == {r \in deployment :
                            /\ r.environment = c.arg.environment
                            /\ InScope(c.cred, ProjectOfEnvironment(r.environment))}
             wanted == IF c.arg.name \in {UNDEF, ""} THEN visible
                       ELSE {r \in visible : r.name = c.arg.name} IN
         (c.op = "getDeploymentsByEnvironmentId" /\ calls[s].op # c.op) =>
             /\ c.pc = "done" /\ c.result.kind = "return"
             /\ {StripLog(out[i]) : i \in 1..Len(out)} = wanted
             /\ Len(out) = Cardinality(wanted)
             /\ \A i, j \in 1..Len(out) : i < j => out[i].created >= out[j].created
      ]_vars

\* a list of two deployments has been returned, the later one first, and a
\* list filtered by name has left a visible deployment out
C11_Witness ==
    \E s \in Slots :
        LET c == calls[s] IN
        /\ c.op = "getDeploymentsByEnvironmentId" /\ c.pc = "done"
        /\ \/ /\ c.arg.name = ""
              /\ Len(c.result.value) = 2
              /\ c.result.value[1].created > c.result.value[2].created
           \/ /\ c.arg.name = "build-1"
              /\ Len(c.result.value) = 1
              /\ \E r \in deployment : r.environment = c.arg.environment /\ r.name # "build-1"

(***************************************************************************)
(* C12: a deployment without remoteId is enriched with buildLog null and   *)
(* without a search of the log index: every stored deployment without      *)
(* remoteId is, and every deployment without remoteId that                 *)
(* getDeploymentByRemoteId, createDeployment or updateDeployment has       *)
(* returned (and, for the latter two, published) has buildLog null, the    *)
(* call having searched the index not once.                                *)
(***************************************************************************)
C12_NoRemoteIdNoBuildLog ==
    /\ \A r \in deployment :
          r.remoteId \in {UNDEF, ""} =>
              /\ injectBuildLog(r) = WithLog(r, UNDEF)
              /\ Searches(r) = 0
    /\ \A s \in Slots :
          LET c == calls[s] IN
          (/\ c.op \in {"getDeploymentByRemoteId", "addDeployment", "updateDeployment"}
           /\ c.result.kind = "return"
           /\ c.result.value # <<>>
           /\ c.result.value[1].remoteId \in {UNDEF, ""}) =>
              /\ c.result.value[1].buildLog = UNDEF
              /\ c.searches = 0

\* createDeployment has published and returned a deployment without remoteId
C12_Witness ==
    \E s \in Slots :
        LET c == calls[s] IN
        /\ c.op = "addDeployment" /\ c.pc = "done" /\ c.result.kind = "return"
        /\ c.pub = <<"ADDED">>
        /\ c.result.value[1].remoteId = UNDEF
        /\ c.result.value[1].buildLog = UNDEF
        /\ c.searches = 0

(***************************************************************************)
(* C13: getDeploymentByRemoteId returns null when no deployment has the    *)
(* remote id; when it has found a deployment and the caller is not an      *)
(* admin and, at the permission test, neither scope set covers the         *)
(* deployment's owner, it rejects the call as unauthorized and hands out   *)
(* no deployment; it searches the log index, and returns a deployment,     *)
(* only after the caller was found to be an admin or passed the            *)
(* permission test; the deployment returned is one of the remote id asked. *)
(***************************************************************************)
C13_GetByRemoteId ==
    [][\A s \in Slots :
         LET c == calls[s]
             d == calls'[s]
             owner == ProjectOfEnvironment(EnvironmentOfDeployment(deployment, c.id)) IN
         (c.op = "getDeploymentByRemoteId" /\ d.pc # c.pc) =>
            /\ (c.pc = "find" /\ ~\E r \in deployment : r.remoteId = c.arg.remoteId) =>
                   /\ d.result = [kind |-> "return", msg |-> "null", value |-> <<>>]
                   /\ d.searches = 0
            /\ (c.pc = "find" /\ \E r \in deployment : r.remoteId = c.arg.remoteId) =>
                   /\ d.pc = IF c.cred.role = "admin" THEN "search" ELSE "perm"
                   /\ d.searches = 0
            /\ (c.pc = "perm" /\ ~InScope(c.cred, owner)) =>
                   /\ d.result = [kind |-> "reject", msg |-> "Unauthorized.", value |-> <<>>]
                   /\ d.rows = {}
                   /\ d.searches = 0
            /\ (c.pc = "perm" /\ InScope(c.cred, owner)) =>
                   d.pc = "search" /\ d.searches = 0
            /\ (d.pc = "search" /\ c.pc # "search") =>
                   \/ c.pc = "find" /\ c.cred.role = "admin"
                   \/ c.pc = "perm" /\ InScope(c.cred, owner)
            /\ d.searches > c.searches => c.pc = "search"
            /\ d.result.kind = "return" /\ d.result.value # <<>> =>
                   /\ c.pc = "search"
                   /\ StripLog(d.result.value[1]).remoteId = c.arg.remoteId
      ]_vars

\* a caller outside the scope of the deployment found has been rejected, with
\* no search made, while another call of an absent remote id has returned null
C13_Witness ==
    \E s, t \in Slots :
        /\ calls[s].op = "getDeploymentByRemoteId"
        /\ calls[s].arg.remoteId = "r1"
        /\ RejectedAs(calls[s], "Unauthorized.")
        /\ calls[s].searches = 0
        /\ calls[t].op = "getDeploymentByRemoteId"
        /\ calls[t].arg.remoteId = "r9"
        /\ calls[t].result = [kind |-> "return", msg |-> "null", value |-> <<>>]

(***************************************************************************)
(* Which environments an environment input selects that are not deleted.   *)
(***************************************************************************)
SelectedActive(input) ==
    { e \in getEnvironmentsByEnvironmentInput(input) : e.deleted = "0000-00-00 00:00:00" }

(***************************************************************************)
(* C14: when the environment input of deployEnvironmentLatest, or the      *)
(* source environment input of deployEnvironmentPromote, selects no        *)
(* environment that is not deleted, or more than one, the call is rejected *)
(* with 'Unauthorized', no task having been handed to the backend and no   *)
(* log line sent; the call goes on, with that environment, only when the   *)
(* input selects exactly one environment that is not deleted.              *)
(***************************************************************************)
C14_SelectorExactlyOne ==
    [][\A s \in Slots :
         LET c == calls[s]
             d == calls'[s]
             n == Cardinality(SelectedActive(c.sel)) IN
         (/\ c.op \in {"deployEnvironmentLatest", "deployEnvironmentPromote"}
          /\ c.pc = "resolve"
          /\ d.pc # c.pc) =>
            /\ n # 1 =>
                  /\ d.result = [kind |-> "reject", msg |-> "Unauthorized", value |-> <<>>]
                  /\ d.tasks = <<>> /\ d.logs = <<>>
                  /\ d.envs = {}
            /\ n = 1 =>
                  /\ ~RejectedAs(d, "Unauthorized")
                  /\ d.envs = SelectedActive(c.sel)
      ]_vars

\* a deployEnvironmentLatest call of a deleted environment, or a
\* deployEnvironmentPromote call of a name two environments bear, has been
\* rejected
C14_Witness ==
    \E s \in Slots :
        /\ calls[s].op \in {"deployEnvironmentLatest", "deployEnvironmentPromote"}
        /\ RejectedAs(calls[s], "Unauthorized")
        /\ calls[s].tasks = <<>> /\ calls[s].logs = <<>>
        /\ \/ calls[s].op = "deployEnvironmentLatest" /\ calls[s].sel.id = "e5"
           \/ calls[s].op = "deployEnvironmentPromote" /\ calls[s].sel.name = N_dup

(***************************************************************************)
(* C15: the task deployEnvironmentLatest hands to the backend is, by the   *)
(* deploy type of the environment: branch - createDeployTask of {type,     *)
(* projectName, branchName: deployBaseRef}; pullrequest - createDeployTask *)
(* of {type, projectName, pullrequestTitle: deployTitle,                   *)
(* pullrequestNumber: the name after its leading "pr-", headBranchName:    *)
(* deployHeadRef, headSha: "origin/" and deployHeadRef, baseBranchName:    *)
(* deployBaseRef, baseSha: "origin/" and deployBaseRef, branchName: the    *)
(* name}; promote - createPromoteTask of {type, projectName, branchName:   *)
(* the name, promoteSourceEnvironment: deployBaseRef}; and no other task.  *)
(***************************************************************************)
C15_LatestDispatch ==
    \A s \in Slots :
        LET c == calls[s]
            e == Row0(c.envs)
            p == CHOOSE q \in Projects : q.id = e.project
            slash == <<"o","r","i","g","i","n","/">>
            data == c.task.data IN
        (c.op = "deployEnvironmentLatest" /\ (c.pc = "task" \/ c.tasks # <<>>)) =>
            /\ c.envs # {}
            /\ e.deployType \in {"branch", "pullrequest", "promote"}
            /\ \A i \in 1..Len(c.tasks) : c.tasks[i] = c.task
            /\ c.task.fn = IF e.deployType = "promote" THEN "createPromoteTask"
                           ELSE "createDeployTask"
            /\ e.deployType = "branch" =>
                  data = [NoData EXCEPT !.type = "branch", !.projectName = p.name,
                                        !.branchName = e.deployBaseRef]
            /\ e.deployType = "pullrequest" =>
                  /\ SubSeq(e.name, 1, 3) = <<"p","r","-">>
                  /\ data = [NoData EXCEPT !.type = "pullrequest", !.projectName = p.name,
                                           !.pullrequestTitle = e.deployTitle,
                                           !.pullrequestNumber = SubSeq(e.name, 4, Len(e.name)),
                                           !.headBranchName = e.deployHeadRef,
                                           !.headSha = slash \o e.deployHeadRef,
                                           !.baseBranchName = e.deployBaseRef,
                                           !.baseSha = slash \o e.deployBaseRef,
                                           !.branchName = e.name]
            /\ e.deployType = "promote" =>
                  data = [NoData EXCEPT !.type = "promote", !.projectName = p.name,
                                        !.branchName = e.name,
                                        !.promoteSourceEnvironment = e.deployBaseRef]

\* the task of a pullrequest environment has been handed to the backend
C15_Witness ==
    \E s \in Slots :
        /\ calls[s].op = "deployEnvironmentLatest"
        /\ calls[s].sel.id = "e2"
        /\ Len(calls[s].tasks) = 1
        /\ calls[s].tasks[1].fn = "createDeployTask"
        /\ calls[s].tasks[1].data.pullrequestNumber = <<"7">>
        /\ calls[s].tasks[1].data.headSha = <<"o","r","i","g","i","n","/">> \o N_feature

(***************************************************************************)
(* C16: in each of the four trigger resolvers, the step in which the       *)
(* backend answers hands it the task once, sends one log line and returns  *)
(* a string, never a rejection: 'success' with a line of severity info     *)
(* when the backend succeeds, 'Skipped: <message>' with a line of severity *)
(* info when it fails as NoNeedToDeployBranch, and 'Error: <message>' with *)
(* a line of severity error when it fails otherwise.  (The messages of the *)
(* backend's answers differ, so the string returned tells the answer.)     *)
(***************************************************************************)
C16_ResultClassified ==
    [][\A s \in Slots :
         LET c == calls[s]
             d == calls'[s] IN
         (c.op \in TriggerOps /\ c.pc = "task" /\ d.pc # c.pc) =>
            /\ d.pc = "done"
            /\ d.result.kind = "return" /\ d.result.value = <<>>
            /\ d.tasks = Append(c.tasks, c.task)
            /\ Len(d.logs) = Len(c.logs) + 1
            /\ \E o \in TaskOutcomes :
                  \/ /\ o.name = "ok"
                     /\ d.result.msg = "success"
                     /\ d.logs[Len(d.logs)] = "info"
                  \/ /\ o.name = "NoNeedToDeployBranch"
                     /\ d.result.msg = "Skipped: " \o o.message
                     /\ d.logs[Len(d.logs)] = "info"
                  \/ /\ o.name \notin {"ok", "NoNeedToDeployBranch"}
                     /\ d.result.msg = "Error: " \o o.message
                     /\ d.logs[Len(d.logs)] = "error"
      ]_vars

\* deployEnvironmentBranch has returned the skip of a backend that had no
\* need to deploy
C16_Witness ==
    \E s \in Slots :
        /\ calls[s].op = "deployEnvironmentBranch"
        /\ calls[s].result = [kind |-> "return", msg |-> "Skipped: up to date", value |-> <<>>]
        /\ calls[s].logs = <<"info">>
        /\ Len(calls[s].tasks) = 1

(***************************************************************************)
(* C17: deployEnvironmentLatest, the caller being an admin or having       *)
(* passed the permission test, rejects the call before a task is handed to *)
(* the backend when the environment lacks what its deploy type requires:   *)
(* deployBaseRef for branch and for promote, and all three of              *)
(* deployBaseRef, deployHeadRef and deployTitle for pullrequest; when a    *)
(* branch or promote environment has a deployBaseRef, or a pullrequest     *)
(* environment at least one of the three, the call goes on to hand over    *)
(* its task.                                                               *)
(***************************************************************************)
C17_RequiredFields ==
    [][\A s \in Slots :
         LET c == calls[s]
             d == calls'[s]
             e == Row0(SelectedActive(c.sel))
             lacks == \/ /\ e.deployType \in {"branch", "promote"}
                         /\ e.deployBaseRef = <<>>
                      \/ /\ e.deployType = "pullrequest"
                         /\ e.deployBaseRef = <<>>
                         /\ e.deployHeadRef = <<>>
                         /\ e.deployTitle = <<>> IN
         (/\ c.op = "deployEnvironmentLatest"
          /\ Cardinality(SelectedActive(c.sel)) = 1
          /\ \/ c.pc = "resolve" /\ c.cred.role = "admin"
             \/ c.pc = "perm" /\ InScope(c.cred, e.project)
          /\ d.pc # c.pc) =>
            /\ lacks =>
                  /\ d.result.kind = "reject"
                  /\ d.result.msg =
                        IF e.deployType = "pullrequest"
                        THEN "Cannot deploy: deployBaseRef, deployHeadRef or deployTitle is empty"
                        ELSE "Cannot deploy: deployBaseRef is empty"
                  /\ d.tasks = <<>> /\ d.logs = <<>>
            /\ (~lacks /\ e.deployType \in {"branch", "pullrequest", "promote"}) =>
                  /\ d.pc = "task"
                  /\ d.task.fn # UNDEF
                  /\ d.result.kind = "none"
      ]_vars

\* a promote environment without deployBaseRef has been refused, or a
\* pullrequest environment with a title only has gone on to its task
C17_Witness ==
    \E s \in Slots :
        /\ calls[s].op = "deployEnvironmentLatest"
        /\ \/ /\ calls[s].sel.id = "e4"
              /\ RejectedAs(calls[s], "Cannot deploy: deployBaseRef is empty")
              /\ calls[s].tasks = <<>>
           \/ /\ calls[s].sel.id = "e11"
              /\ calls[s].pc = "task"

(***************************************************************************)
(* C18 (as claimed): deployEnvironmentLatest of an environment whose       *)
(* deploy type is none of branch, pullrequest and promote, by a caller who *)
(* is an admin or in scope, is rejected, no task having been handed to the *)
(* backend and no log line sent.                                           *)
(***************************************************************************)
C18_UnknownTypeRejected ==
    \A s \in Slots :
        LET c == calls[s]
            e == Row0(c.envs) IN
        (/\ c.op = "deployEnvironmentLatest" /\ c.pc = "done"
         /\ c.envs # {}
         /\ e.deployType \notin {"branch", "pullrequest", "promote"}
         /\ InScope(c.cred, e.project)) =>
            /\ c.result.kind = "reject"
            /\ c.tasks = <<>> /\ c.logs = <<>>

(***************************************************************************)
(* C18 (amended): deployEnvironmentLatest of an environment whose deploy   *)
(* type is none of branch, pullrequest and promote, by a caller who is an  *)
(* admin or in scope, returns the string 'Error: Unkown deploy type        *)
(* <type>' as its result - a return, not a rejection, unlike a missing     *)
(* required field - no task having been handed to the backend and no log   *)
(* line sent; a caller out of scope is rejected as unauthorized.           *)
(***************************************************************************)
C18_UnknownTypeReturned ==
    \A s \in Slots :
        LET c == calls[s]
            e == Row0(c.envs) IN
        (/\ c.op = "deployEnvironmentLatest"
         /\ c.envs # {}
         /\ e.deployType \notin {"branch", "pullrequest", "promote"}) =>
            /\ c.pc \in {"perm", "done"}
            /\ c.tasks = <<>> /\ c.logs = <<>>
            /\ (c.pc = "done" /\ InScope(c.cred, e.project)) =>
                  c.result = [kind |-> "return",
                              msg |-> "Error: Unkown deploy type " \o e.deployType,
                              value |-> <<>>]
            /\ (c.pc = "done" /\ ~InScope(c.cred, e.project)) =>
                  RejectedAs(c, "Unauthorized.")

\* a caller in scope has been returned the error string of a cronjob environment
C18_Witness ==
    \E s \in Slots :
        /\ calls[s].op = "deployEnvironmentLatest"
        /\ calls[s].sel.id = "e9"
        /\ calls[s].cred.role # "admin"
        /\ calls[s].result = [kind |-> "return",
                              msg |-> "Error: Unkown deploy type cronjob",
                              value |-> <<>>]
        /\ calls[s].tasks = <<>> /\ calls[s].logs = <<>>

(***************************************************************************)
(* C19 (as claimed): every call of a trigger resolver ends in a string     *)
(* returned, never in a rejection.                                         *)
(***************************************************************************)
C19_TriggersNeverReject ==
    \A s \in Slots :
        (calls[s].op \in TriggerOps /\ calls[s].pc = "done") =>
            calls[s].result.kind = "return"

(***************************************************************************)
(* C19 (amended): no failure of the backend leaves a trigger resolver as   *)
(* a rejection: a call that has handed its task to the backend ends in a   *)
(* string returned.  A call that fails before that - the caller is not     *)
(* authorized, the input selects no single environment or names no         *)
(* project, or a required field is missing - is rejected, with no task     *)
(* handed over and no log line sent.                                       *)
(***************************************************************************)
C19_BackendFailuresReturned ==
    \A s \in Slots :
        LET c == calls[s] IN
        (c.op \in TriggerOps /\ c.pc = "done") =>
            /\ c.tasks # <<>> =>
                  /\ c.result.kind = "return"
                  /\ c.result.msg \in {"success", "Skipped: up to date",
                                       "Error: no active system"}
            /\ c.result.kind = "reject" =>
                  /\ c.tasks = <<>> /\ c.logs = <<>>
                  /\ c.result.msg \in
                        {"Unauthorized.", "Unauthorized", "TypeError",
                         "Cannot deploy: deployBaseRef is empty",
                         "Cannot deploy: deployBaseRef, deployHeadRef or deployTitle is empty"}
            /\ (c.tasks = <<>> /\ c.result.kind = "return") =>
                  /\ c.op = "deployEnvironmentLatest"
                  /\ c.result.msg = "Error: Unkown deploy type cronjob"

\* a failure of the backend has been returned as a string by
\* deployEnvironmentPromote
C19_Witness ==
    \E s \in Slots :
        /\ calls[s].op = "deployEnvironmentPromote"
        /\ calls[s].result = [kind |-> "return", msg |-> "Error: no active system",
                              value |-> <<>>]
        /\ Len(calls[s].tasks) = 1

(***************************************************************************)
(* Two updateDeployment calls in flight on the same stored deployment.     *)
(***************************************************************************)
\* the fields a patch sets
Fields(patch) ==
    {f \in {"name", "status", "created", "started", "completed", "environment", "remoteId"} :
        patch[f] # NoArg[f]}

\* the patch as the UPDATE statement carries it: the status normalized
Normalized(patch) == [patch EXCEPT !.status = deploymentStatusTypeToString(@)]

\* the caller's scope covers the owner of deployment r and of every
\* environment the two patches name
CoversAll(cred, r, p, q) ==
    \A eid \in {r.environment, p.environment, q.environment} \ {UNDEF} :
        InScope(cred, ProjectOfEnvironment(eid))

(***************************************************************************)
(* C20: two updateDeployment calls that are in flight together on the same *)
(* stored deployment, with patches that share no field, by callers whose   *)
(* scope covers the deployment and the environments named, both return     *)
(* the deployment, each having published one UPDATED event (two in all),   *)
(* and the row stored at the end is the row before with both patches       *)
(* applied, no field set by one call overwritten by the other.             *)
(***************************************************************************)
C20_ConcurrentUpdatesBothApplied ==
    \A s, t \in Slots :
        LET c == calls[s]
            d == calls[t]
            r == CHOOSE x \in InitialDeployments : x.id = c.id IN
        (/\ s # t
         /\ c.op = "updateDeployment" /\ d.op = "updateDeployment"
         /\ c.id = d.id /\ c.id \in {x.id : x \in InitialDeployments}
         /\ Fields(c.arg) # {} /\ Fields(d.arg) # {}
         /\ Fields(c.arg) \cap Fields(d.arg) = {}
         /\ CoversAll(c.cred, r, c.arg, d.arg) /\ CoversAll(d.cred, r, c.arg, d.arg)
         /\ c.pc = "done" /\ d.pc = "done") =>
            /\ c.result.kind = "return" /\ d.result.kind = "return"
            /\ c.pub = <<"UPDATED">> /\ d.pub = <<"UPDATED">>
            /\ Len(events) = 2
            /\ {events[i].by : i \in 1..2} = {c.no, d.no}
            /\ selectDeployment(deployment, c.id) =
                  {PatchRow(PatchRow(r, Normalized(c.arg)), Normalized(d.arg))}

(***************************************************************************)
(* C21: every stored deployment whose completed is set has its started     *)
(* set, and every one whose started is set has its created set.            *)
(***************************************************************************)
C21_TimestampInvariant ==
    \A r \in deployment :
        /\ r.completed # NoTime => r.started # NoTime
        /\ r.started # NoTime => r.created # NoTime

(***************************************************************************)
(* The projects whose owner a trigger call has to be permitted for: the    *)
(* project of the environment it resolved, the project it names.           *)
(***************************************************************************)
TriggerTargets(c) ==
    (IF c.op \in {"deployEnvironmentLatest", "deployEnvironmentPromote"}
     THEN {e.project : e \in c.envs} ELSE {})
    \cup (IF c.op # "deployEnvironmentLatest" THEN {c.proj} ELSE {})

(***************************************************************************)
(* C22: a call of a trigger resolver hands a task to the backend at most   *)
(* once; a caller who is not an admin has a task handed over, or is about  *)
(* to, only when the scope covers every target of the call's permission    *)
(* tests, the one environment resolved included; and a call that is        *)
(* rejected has handed over no task and sent no log line.                  *)
(***************************************************************************)
C22_BackendOnceAfterPermission ==
    \A s \in Slots :
        LET c == calls[s] IN
        c.op \in TriggerOps =>
            /\ Len(c.tasks) <= 1
            /\ Len(c.logs) <= Len(c.tasks)
            /\ (c.pc = "task" \/ c.tasks # <<>>) =>
                  /\ c.op \in {"deployEnvironmentLatest", "deployEnvironmentPromote"} =>
                        Cardinality(c.envs) = 1
                  /\ \A pid \in TriggerTargets(c) : InScope(c.cred, pid)
                  /\ c.result.kind # "reject"
            /\ c.result.kind = "reject" => c.tasks = <<>> /\ c.logs = <<>>

\* the backend has failed a task of a caller who is not an admin, and the call
\* has ended with the task handed over once
C22_Witness ==
    \E s \in Slots :
        /\ calls[s].op = "deployEnvironmentPullrequest"
        /\ calls[s].cred.role # "admin"
        /\ calls[s].pc = "done"
        /\ calls[s].result.msg = "Error: no active system"
        /\ Len(calls[s].tasks) = 1
        /\ calls[s].logs = <<"error">>

(***************************************************************************)
(* C23: deployEnvironmentPromote hands the promote task of a caller who is *)
(* not an admin to the backend only when the caller's scope covers the     *)
(* destination project and the project of the one source environment that  *)
(* is not deleted; and a caller whose scope does not cover the destination *)
(* project is rejected with 'Unauthorized.' whatever the source input      *)
(* selects, the source environment not having been resolved.               *)
(***************************************************************************)
C23_PromoteDestinationFirst ==
    \A s \in Slots :
        LET c == calls[s] IN
        (c.op = "deployEnvironmentPromote" /\ c.cred.role # "admin") =>
            /\ (c.pc = "task" \/ c.tasks # <<>>) =>
                  /\ c.task.fn = "createPromoteTask"
                  /\ InScope(c.cred, c.proj)
                  /\ c.envs = SelectedActive(c.sel)
                  /\ Cardinality(c.envs) = 1
                  /\ \A e \in c.envs : InScope(c.cred, e.project)
            /\ ~InScope(c.cred, c.proj) =>
                  /\ c.pc \in {"project", "perm", "done"}
                  /\ c.envs = {}
                  /\ c.tasks = <<>> /\ c.logs = <<>>
                  /\ c.pc = "done" => c.result.kind = "reject"
                  /\ (c.pc = "done" /\ getProject(c.proj) # {}) =>
                        RejectedAs(c, "Unauthorized.")
            /\ c.pc \in {"project", "perm"} => c.envs = {}

\* a caller whose scope does not cover the destination project has been
\* rejected, the source input naming two environments
C23_Witness ==
    \E s \in Slots :
        /\ calls[s].op = "deployEnvironmentPromote"
        /\ calls[s].cred = Cred("user", {}, {"p1"})
        /\ calls[s].proj = "p2"
        /\ calls[s].sel.name = N_dup
        /\ RejectedAs(calls[s], "Unauthorized.")
        /\ calls[s].envs = {}

(***************************************************************************)
(* The message of the newest entry of the log index that bears the remote  *)
(* id and the status of deployment d; undefined when there is none.        *)
(***************************************************************************)
NewestMessage(d) ==
    LET hits == {h \in LogIndex : h.remoteId = d.remoteId /\ h.buildPhase = d.status} IN
    IF hits = {} THEN UNDEF
    ELSE (CHOOSE h \in hits : \A g \in hits : g.timestamp <= h.timestamp).message

(***************************************************************************)
(* C24: a list returned by getDeploymentsByEnvironmentId whose query does  *)
(* not ask for buildLog has cost no search of the log index and bears      *)
(* buildLog null in every row; one whose query asks for it has cost one    *)
(* search for each row with a remoteId and none for the others, a row      *)
(* without remoteId bearing buildLog null and a row with one the message   *)
(* of the newest index entry of its remote id and status, or null when     *)
(* there is none.                                                          *)
(***************************************************************************)
C24_ListLogOnRequest ==
    \A s \in Slots :
        LET c == calls[s]
            out == c.result.value
            remote == {i \in 1..Len(out) : out[i].remoteId \notin {UNDEF, ""}} IN
        (c.op = "getDeploymentsByEnvironmentId" /\ c.pc = "done") =>
            /\ ~c.wantLog =>
                  /\ c.searches = 0
                  /\ \A i \in 1..Len(out) : out[i].buildLog = UNDEF
            /\ c.wantLog =>
                  /\ c.searches = Cardinality(remote)
                  /\ \A i \in 1..Len(out) :
                        out[i].buildLog = IF i \in remote THEN NewestMessage(out[i]) ELSE UNDEF

\* a list of two deployments, one with a remote id that has entries in the
\* index, has been returned without buildLog, the query not asking for it
C24_Witness ==
    \E s \in Slots :
        LET c == calls[s] IN
        /\ c.op = "getDeploymentsByEnvironmentId" /\ c.pc = "done"
        /\ ~c.wantLog
        /\ c.searches = 0
        /\ Len(c.result.value) = 2
        /\ \E i \in 1..2 : /\ c.result.value[i].remoteId = "r1"
                           /\ c.result.value[i].buildLog = UNDEF
                           /\ NewestMessage(c.result.value[i]) # UNDEF

(***************************************************************************)
(* C25: a step in which the UPDATE or DELETE statement of a caller who is  *)
(* not an admin changes or removes a row is taken only when the project or *)
(* the customer owning that row, as stored at that step, is in the         *)
(* caller's scope.                                                         *)
(***************************************************************************)
C25_WriteInScopeAtWrite ==
    [][\A s \in Slots :
         LET c == calls[s]
             d == calls'[s] IN
         (/\ c.op \in {"updateDeployment", "deleteDeployment"}
          /\ c.cred.role # "admin"
          /\ d.changed > c.changed) =>
            InScope(c.cred,
                    ProjectOfEnvironment(EnvironmentOfDeployment(deployment, c.id)))
      ]_vars

(***************************************************************************)
(* C26: the deployment a createDeployment or updateDeployment call         *)
(* publishes and returns is, but for its buildLog, the row of its id that  *)
(* the table held at the call's read-back, a step that comes after the     *)
(* step of the call's own INSERT or UPDATE; the row is looked at nowhere   *)
(* else in the call; and a read-back that finds no row of the id (the row  *)
(* removed since the write) rejects the call, with no event published.     *)
(***************************************************************************)
C26_PublishedRowReadAfterWrite ==
    [][\A s \in Slots :
         LET c == calls[s]
             d == calls'[s]
             held == {r \in deployment : r.id = c.id} IN
         (c.op \in {"addDeployment", "updateDeployment"} /\ d.op = c.op) =>
            \* the read-back comes after the write
            /\ (d.pc = "select" /\ c.pc # "select") =>
                  /\ c.pc \in {"insert", "update"}
                  /\ d.issued = c.issued + 1
                  /\ d.rows = {}
            \* the read-back holds what the table holds then
            /\ (c.pc = "select" /\ d.pc # "select") =>
                  /\ c.issued = 1
                  /\ held = {} =>
                        /\ d.result.kind = "reject"
                        /\ d.pub = <<>>
                        /\ events' = events
                  /\ held # {} =>
                        \/ d.pc = "search" /\ d.rows = held /\ events' = events
                        \/ /\ d.pc = "done" /\ d.result.kind = "return"
                           /\ {StripLog(d.result.value[1])} = held
                           /\ d.pub = <<TopicOf(c.op)>>
                           /\ Len(events') = Len(events) + 1
            \* what is published after the search of the index is the row read back
            /\ (d.pc = "search" /\ c.pc # "search") => c.pc = "select"
            /\ (c.pc = "search" /\ d.pc # "search") =>
                  /\ d.pc = "done" /\ d.result.kind = "return"
                  /\ {StripLog(d.result.value[1])} = c.rows
                  /\ d.pub = <<TopicOf(c.op)>>
                  /\ Len(events') = Len(events) + 1
            \* nothing is published at any other step
            /\ d.pub # c.pub => c.pc \in {"select", "search"}
      ]_vars

\* the row a call wrote has been removed by another call before the read-back,
\* and the call has been rejected with nothing published
C26_Witness ==
    \E s, t \in Slots :
        /\ calls[s].op = "updateDeployment"
        /\ calls[s].changed = 1
        /\ RejectedAs(calls[s], "TypeError")
        /\ calls[s].pub = <<>>
        /\ calls[t].op = "deleteDeployment"
        /\ calls[t].changed = 1
        /\ calls[t].id = calls[s].id
        /\ events = <<>>

=============================================================================
